---- MODULE Spec2Model ----
(***************************************************************************)
(* Grant matching for NPOs: the match scoring engine of                    *)
(* backend/grant_matcher.py (OurSGGrantMatcher), the profile builder of    *)
(* scripts/build_grant_features.py and the callers in backend/main.py.     *)
(*                                                                         *)
(* Conventions of the model                                                *)
(*  - a Python value that may be missing is a record with a "kind":        *)
(*    Absent (the key is not in the dict), None (null), Str, Num, Bool,     *)
(*    List, or a dict (kind "dict" and its keys);                          *)
(*  - in the matcher a text is a sequence of word tokens; "x in text" is   *)
(*    the search for a contiguous run of tokens, and lower() maps each     *)
(*    token; in the profile builder, whose work is on characters and       *)
(*    whitespace, a text is a string and is read character by character;   *)
(*  - a score is kept in tenths (650 is 65.0), as round(x, 1) leaves it;   *)
(*  - a date string "YYYY-MM-DD" is the triple <<y, m, d>>, parsed into a   *)
(*    day count by strptime; an instant is a count of ticks,               *)
(*    TicksPerDay to the day;                                              *)
(*  - a call that raises returns Raised.                                   *)
(***************************************************************************)
EXTENDS Integers, Sequences, FiniteSets, TLC

VARIABLES npo, grant, now, result, again, scored, batch, output, rec, built,
          rebuilt, funding_text, extracted, reextracted, when_input,
          extracted_window, grants_db, npo_profiles, swipes, swiped_grants,
          request, response

\* the variables of the calls of scripts/build_grant_features.py
builderVars == <<rec, built, rebuilt, funding_text, extracted, reextracted,
                 when_input, extracted_window>>

\* the collections of backend/main.py and the last recommendations served
serverVars == <<grants_db, npo_profiles, swipes, swiped_grants, request, response>>

vars ==
    <<npo, grant, now, result, again, scored, batch, output, builderVars, serverVars>>

----------------------------------------------------------------------------
(* Bounds of the model *)

\* ticks of the clock per day: 0 is midnight, the others are later that day
TicksPerDay == 2

\* the longest list of grants handed to batch_match_grants
MaxGrants == 3

\* the most swipes saved
MaxSwipes == 2

----------------------------------------------------------------------------
(* Python values *)

Absent == [kind |-> "absent"]

None == [kind |-> "none"]

Str(t) == [kind |-> "str", val |-> t]

Num(n) == [kind |-> "num", val |-> n]

Bool(b) == [kind |-> "bool", val |-> b]

List(s) == [kind |-> "list", val |-> s]

Raised == [raised |-> TRUE]

Raises(r) == "raised" \in DOMAIN r

\* dict.get(key, default): the default only when the key is absent; a key
\* that is present with the value null gives null
get(field, default) == IF field.kind = "absent" THEN default ELSE field

\* Python truth value of an optional value
Truthy(v) ==
    CASE v.kind = "none" -> FALSE
      [] v.kind = "absent" -> FALSE
      [] v.kind = "str" -> Len(v.val) > 0
      [] v.kind = "list" -> Len(v.val) > 0
      [] v.kind = "num" -> v.val # 0
      [] v.kind = "bool" -> v.val
      [] OTHER -> TRUE

Min(a, b) == IF a <= b THEN a ELSE b

Max(a, b) == IF a >= b THEN a ELSE b

\* round(num/den, 0) for den > 0, ties to the even neighbour as round() does
RoundHalfEven(num, den) ==
    LET q == num \div den
        r == num - q * den
    IN  IF 2 * r < den THEN q
        ELSE IF 2 * r > den THEN q + 1
        ELSE IF q % 2 = 0 THEN q ELSE q + 1

ToSet(s) == {s[i] : i \in 1..Len(s)}

\* every order in which the elements of S can be listed
Orders(S) == {f \in [1..Cardinality(S) -> S] : \A a \in S : \E i \in DOMAIN f : f[i] = a}

\* list(S) for a set S, in the iteration order h (a listing of a superset)
ListOf(S, h) == SelectSeq(h, LAMBDA x : x \in S)

Take(s, n) == SubSeq(s, 1, Min(n, Len(s)))

----------------------------------------------------------------------------
(* Text *)

\* str.lower() on one token
LowerWord(w) ==
    CASE w = "Registered" -> "registered"
      [] w = "Charity" -> "charity"
      [] w = "Singapore" -> "singapore"
      [] w = "Non-Profit" -> "non-profit"
      [] w = "IPC" -> "ipc"
      [] w = "Urgent" -> "urgent"
      [] w = "Seniors" -> "seniors"
      [] w = "Support" -> "support"
      [] w = "Funding" -> "funding"
      [] w = "Grant" -> "grant"
      [] w = "NPO" -> "npo"
      [] w = "Application" -> "application"
      [] w = "Eligibility" -> "eligibility"
      [] OTHER -> w

lower(t) == [i \in DOMAIN t |-> LowerWord(t[i])]

\* str.lower().strip() on a category label
LowerStrip(s) ==
    CASE s = "Ageing " -> "ageing"
      [] s = " health" -> "health"
      [] s = "Training_Manpower" -> "training_manpower"
      [] OTHER -> s

\* "phrase in text"
Contains(text, phrase) ==
    \E i \in 0..(Len(text) - Len(phrase)) :
        \A j \in 1..Len(phrase) : text[i + j] = phrase[j]

\* re.findall(r'\w+', token): a hyphen or a comma is no word character
RegexWords(w) ==
    CASE w = "non-profit" -> {"non", "profit"}
      [] w = "," -> {}
      [] OTHER -> {w}

\* the tokens of the lexicon with at most three letters
ShortWords == {"the", "for", "and", "to", "all", "non", "old", "aid", "of", "in", "art"}

\* len(word) > 3
IsLong(w) == w \notin ShortWords

----------------------------------------------------------------------------
(* Dates *)

IsLeap(y) == (y % 4 = 0 /\ y % 100 # 0) \/ y % 400 = 0

DaysInMonth(y, m) ==
    CASE m \in {4, 6, 9, 11} -> 30
      [] m = 2 -> IF IsLeap(y) THEN 29 ELSE 28
      [] OTHER -> 31

\* a parser that takes any day from 1 to 31 in every month
Parses_AnyDay(d) ==
    /\ Len(d) = 3
    /\ d[1] \in 1..9999
    /\ d[2] \in 1..12
    /\ d[3] \in 1..31

\* whether datetime.strptime(d, "%Y-%m-%d") accepts the string
Parses(d) ==
    /\ Len(d) = 3
    /\ d[1] \in 1..9999
    /\ d[2] \in 1..12
    /\ d[3] \in 1..DaysInMonth(d[1], d[2])

RECURSIVE DaysBeforeMonth(_, _)
DaysBeforeMonth(y, m) ==
    IF m <= 1 THEN 0 ELSE DaysBeforeMonth(y, m - 1) + DaysInMonth(y, m - 1)

\* the day count of a parsed date (date.toordinal())
Ordinal(d) ==
    LET y == d[1] - 1
    IN  365 * y + (y \div 4) - (y \div 100) + (y \div 400)
        + DaysBeforeMonth(d[1], d[2]) + d[3]

\* the instant of midnight at the start of date d
Midnight(d) == Ordinal(d) * TicksPerDay

\* timedelta.days of the difference (later - earlier), which floors
DeltaDays(later, earlier) == (later - earlier) \div TicksPerDay

----------------------------------------------------------------------------
(* OurSGGrantMatcher *)

\* the weights of __init__, in hundredths
weights ==
    [issue_area_match |-> 30, scope_alignment |-> 20, funding_fit |-> 20,
     eligibility_match |-> 15, timeline_urgency |-> 10, strategic_fit |-> 5]

\* the keys of the scores dict, in insertion order
ScoreKeys ==
    <<"issue_area_match", "scope_alignment", "funding_fit",
      "eligibility_match", "timeline_urgency", "strategic_fit">>

\* grant.get("grant_profile", {}) with the reads of an empty dict resolved:
\* every .get on {} gives its default, [] for the lists and None for the rest
EmptyProfile ==
    [kind |-> "dict", issue_areas |-> <<>>, scope_tags |-> <<>>,
     funding |-> [cap_amount_sgd |-> None, percent_max |-> None],
     application_window |->
        [is_open_all_year |-> None, start_date |-> None, end_date |-> None]]

ProfileOf(g) == get(g.grant_profile, EmptyProfile)

_score_issue_areas(n, g, h) ==
    LET gp == ProfileOf(g)
    IN  IF gp.kind = "none" THEN Raised
        ELSE
        LET npo_areas == {LowerStrip(a) : a \in ToSet(n.issue_areas)}
            grant_areas == {LowerStrip(a) : a \in ToSet(gp.issue_areas)}
            matched == npo_areas \cap grant_areas
            nm == Cardinality(matched)
            ng == Cardinality(grant_areas)
            nn == Cardinality(npo_areas)
        IN  IF npo_areas = {} \/ grant_areas = {}
            THEN [score |-> 0,
                  details |-> <<"Missing", "issue", "area", "information">>,
                  matched |-> <<>>]
            ELSE IF matched = {}
            THEN [score |-> 0,
                  details |-> <<"No", "matching", "issue", "areas">>,
                  matched |-> <<>>]
            ELSE [score |-> RoundHalfEven(700 * nm * nn + 300 * nm * ng, ng * nn),
                  details |-> <<"Matched", ToString(nm) \o "/" \o ToString(ng),
                                "grant", "areas">>,
                  matched_areas |-> ListOf(matched, h.areas),
                  missing_areas |-> ListOf(grant_areas \ npo_areas, h.areas)]

_score_scope_tags(n, g, h) ==
    LET gp == ProfileOf(g)
    IN  IF gp.kind = "none" THEN Raised
        ELSE
        LET npo_scopes == {LowerStrip(a) : a \in ToSet(n.project_types)}
            grant_scopes == {LowerStrip(a) : a \in ToSet(gp.scope_tags)}
            matched == npo_scopes \cap grant_scopes
        IN  IF grant_scopes = {}
            THEN [score |-> 1000,
                  details |-> <<"No", "specific", "project", "type", "required">>,
                  matched |-> <<>>]
            ELSE IF npo_scopes = {}
            THEN [score |-> 500,
                  details |-> <<"NPO", "project", "types", "not", "specified">>,
                  matched |-> <<>>]
            ELSE IF matched = {}
            THEN [score |-> 300,
                  details |-> <<"No", "matching", "project", "types">>,
                  matched |-> <<>>]
            ELSE [score |-> RoundHalfEven(1000 * Cardinality(matched),
                                          Cardinality(grant_scopes)),
                  details |-> <<"Matches",
                                ToString(Cardinality(matched)) \o "/"
                                    \o ToString(Cardinality(grant_scopes)),
                                "required", "project", "types">>,
                  matched_scopes |-> ListOf(matched, h.scopes),
                  available_scopes |-> ListOf(grant_scopes, h.scopes)]

\* a cap that only meets the minimum counted as below it
BelowMinimum_OrEqual(cap_amount, npo_min) == cap_amount <= npo_min

\* cap_amount < npo_min
BelowMinimum(cap_amount, npo_min) == cap_amount < npo_min

\* percent_max is kept in tenths of a percent, as the score is in tenths
_score_funding(n, g) ==
    LET gp == ProfileOf(g)
    IN  IF gp.kind = "none" THEN Raised
        ELSE
        LET npo_min == n.funding_min
            npo_max == n.funding_max
            cap_amount == gp.funding.cap_amount_sgd
            percent_max == gp.funding.percent_max
        IN  IF ~Truthy(cap_amount) /\ ~Truthy(percent_max)
            THEN [score |-> 700,
                  details |-> <<"Funding", "amount", "not", "specified", "in", "grant">>]
            ELSE IF Truthy(cap_amount)
            THEN IF BelowMinimum(cap_amount.val, npo_min)
                 THEN [score |-> 200,
                       details |-> <<"Grant", "cap", ToString(cap_amount.val),
                                     "below", "your", "minimum", ToString(npo_min)>>]
                 ELSE IF cap_amount.val >= npo_max
                 THEN [score |-> 1000,
                       details |-> <<"Grant", "cap", ToString(cap_amount.val),
                                     "can", "fully", "cover", "your", "needs">>]
                 ELSE [score |->
                          IF npo_max > npo_min
                          THEN RoundHalfEven(
                                  500 * (npo_max - npo_min)
                                      + 500 * (cap_amount.val - npo_min),
                                  npo_max - npo_min)
                          ELSE 1000,
                       details |-> <<"Grant", "cap", ToString(cap_amount.val),
                                     "provides", "partial", "coverage">>]
            ELSE IF Truthy(percent_max)
            THEN [score |-> percent_max.val,
                  details |-> <<"Grant", "covers", "up", "to",
                                ToString(percent_max.val), "%", "of", "costs">>]
            ELSE [score |-> 600, details |-> <<"Funding", "details", "unclear">>]

\* the eligibility_checks dict, in insertion order: the phrase looked for in
\* the grant's text and whether the NPO meets it
eligibility_checks(npo_type, npo_registration) ==
    << [criterion |-> <<"registered", "charity">>,
        npo_meets |-> Contains(npo_registration, <<"charity">>)
                        \/ Contains(npo_registration, <<"ipc">>)],
       [criterion |-> <<"non-profit">>,
        npo_meets |-> Contains(npo_type, <<"non-profit">>)
                        \/ Contains(npo_registration, <<"charity">>)],
       [criterion |-> <<"social", "service">>,
        npo_meets |-> Contains(npo_type, <<"social", "service">>)
                        \/ Contains(npo_type, <<"ssa">>)],
       [criterion |-> <<"registered">>,
        npo_meets |-> npo_registration # <<>>],
       [criterion |-> <<"singapore">>,
        npo_meets |-> TRUE] >>

\* the running score floored at 0 as well as capped at 100
EligibilityScore_Floored(met, unmet) == Max(0, Min(100, 50 + 10 * met - 15 * unmet))

\* the running score: base 50, +10 for each criterion met, -15 for each one
\* not met, then capped at 100
EligibilityScore(met, unmet) == Min(100, 50 + 10 * met - 15 * unmet)

_score_eligibility(n, g) ==
    LET who == get(g.who_can_apply, Str(<<>>))
    IN  IF who.kind = "none" THEN Raised
        ELSE
        LET who_can_apply == lower(who.val)
            checks == eligibility_checks(lower(n.organization_type),
                                         lower(n.registration_status))
            found == SelectSeq(checks, LAMBDA c : Contains(who_can_apply, c.criterion))
            met == SelectSeq(found, LAMBDA c : c.npo_meets)
            unmet == SelectSeq(found, LAMBDA c : ~c.npo_meets)
            matches == [i \in DOMAIN met |->
                          <<"Meets">> \o met[i].criterion \o <<"requirement">>]
            issues == [i \in DOMAIN unmet |->
                          <<"May", "not", "meet">> \o unmet[i].criterion
                              \o <<"requirement">>]
            score == EligibilityScore(Len(met), Len(unmet))
        IN  IF who_can_apply = <<>>
            THEN [score |-> 700,
                  details |-> <<"Eligibility", "criteria", "not", "specified">>]
            ELSE [score |-> 10 * score,
                  details |-> IF issues # <<>>
                              THEN <<"Potential", "issue:">> \o issues[1]
                              ELSE <<"Assessed", ToString(Len(matches)),
                                     "eligibility", "criteria">>,
                  matches |-> matches,
                  concerns |-> issues]

\* the flag consulted only when the window carries no date
OpenAllYear_UnlessDated(app_window) ==
    /\ Truthy(app_window.is_open_all_year)
    /\ ~Truthy(app_window.start_date)
    /\ ~Truthy(app_window.end_date)

\* if is_open_all_year: the first test of _score_timeline
OpenAllYear(app_window) == Truthy(app_window.is_open_all_year)

_score_timeline(n, g, today) ==
    LET gp == ProfileOf(g)
    IN  IF gp.kind = "none" THEN Raised
        ELSE
        LET app_window == gp.application_window
            start_date == app_window.start_date
            end_date == app_window.end_date
            npo_urgency == LowerWord(n.funding_urgency)
            unclear == [score |-> 600,
                        details |-> <<"Application", "timeline", "unclear">>]
            \* the branch of "if end_date:", reached when the start gave no return
            from_end ==
                IF ~Truthy(end_date) THEN unclear
                ELSE IF ~Parses(end_date.val) THEN unclear
                ELSE IF today > Midnight(end_date.val)
                THEN [score |-> 0,
                      details |-> <<"Application", "window", "closed">>]
                ELSE LET days_left == DeltaDays(Midnight(end_date.val), today)
                     IN  IF days_left < 7
                         THEN [score |-> 300,
                               details |-> <<"Only", ToString(days_left), "days",
                                             "left", "to", "apply">>]
                         ELSE IF days_left < 30
                         THEN [score |-> 800,
                               details |-> <<ToString(days_left), "days",
                                             "left", "to", "apply">>]
                         ELSE [score |-> 1000,
                               details |-> <<ToString(days_left), "days",
                                             "left", "to", "apply">>]
        IN  IF OpenAllYear(app_window)
            THEN [score |-> 1000,
                  details |-> <<"Application", "open", "year-round">>]
            ELSE IF ~Truthy(start_date) /\ ~Truthy(end_date)
            THEN [score |-> 600,
                  details |-> <<"Application", "timeline", "not", "clearly",
                                "specified">>]
            ELSE IF ~Truthy(start_date) THEN from_end
            ELSE IF ~Parses(start_date.val) THEN unclear
            ELSE IF today < Midnight(start_date.val)
            THEN LET days_until == DeltaDays(Midnight(start_date.val), today)
                 IN  IF npo_urgency = "urgent" /\ days_until > 30
                     THEN [score |-> 400,
                           details |-> <<"Opens", "in", ToString(days_until), "days",
                                         "(may", "be", "too", "late", "for",
                                         "urgent", "need)">>]
                     ELSE [score |-> 700,
                           details |-> <<"Opens", "in", ToString(days_until), "days">>]
            ELSE from_end

stop_words ==
    {"the", "a", "an", "and", "or", "but", "in", "on", "at", "to", "for", "of",
     "with", "by"}

\* the set of words of a text that the keyword overlap keeps
KeyWords(text) ==
    {w \in UNION {RegexWords(text[i]) : i \in DOMAIN text} :
        IsLong(w) /\ w \notin stop_words}

_score_strategic_alignment(n, g, h) ==
    LET about == get(g.about, Str(<<>>))
        title == get(g.title, Str(<<>>))
    IN  IF about.kind = "none" \/ title.kind = "none" THEN Raised
        ELSE
        LET npo_mission == lower(n.mission)
            npo_description == lower(n.description)
            grant_about == lower(about.val)
            grant_title == lower(title.val)
            npo_words == KeyWords(npo_mission \o npo_description)
            grant_words == KeyWords(grant_about \o grant_title)
            overlap == npo_words \cap grant_words
            smaller == Min(Cardinality(npo_words), Cardinality(grant_words))
        IN  IF npo_mission = <<>> /\ npo_description = <<>>
            THEN [score |-> 500, details |-> <<"NPO", "mission", "not", "provided">>]
            ELSE IF grant_about = <<>>
            THEN [score |-> 500,
                  details |-> <<"Grant", "description", "not", "available">>]
            ELSE IF npo_words = {} \/ grant_words = {}
            THEN [score |-> 500,
                  details |-> <<"Insufficient", "text", "for", "analysis">>]
            ELSE [score |-> Min(1000, RoundHalfEven(2000 * Cardinality(overlap), smaller)),
                  details |-> <<"Found", ToString(Cardinality(overlap)),
                                "keyword", "matches">>,
                  key_matches |-> Take(ListOf(overlap, h.words), 5)]

\* the four rules of _apply_adjustments in the order the code tests them:
\* whether the rule applies, what it adds, and the reason it appends
StrongMatchBonus(scores) ==
    [applies |-> Cardinality({i \in DOMAIN ScoreKeys :
                                 scores[ScoreKeys[i]].score >= 800}) >= 3,
     amount |-> 5,
     reason |-> "Multiple strong compatibility indicators"]

\* a rule that never applies
NoOverlapPenalty_Dropped(scores) ==
    [applies |-> FALSE,
     amount |-> 0 - 15,
     reason |-> "No issue area overlap - may not be suitable"]

NoOverlapPenalty(scores) ==
    [applies |-> scores["issue_area_match"].score = 0,
     amount |-> 0 - 15,
     reason |-> "No issue area overlap - may not be suitable"]

\* a bonus given only when the strong-match bonus was not
PerfectAlignmentBonus_UnlessStrong(scores) ==
    [applies |-> scores["issue_area_match"].score = 1000
                    /\ Cardinality({i \in DOMAIN ScoreKeys :
                                       scores[ScoreKeys[i]].score >= 800}) < 3,
     amount |-> 5,
     reason |-> "Perfect issue area alignment"]

PerfectAlignmentBonus(scores) ==
    [applies |-> scores["issue_area_match"].score = 1000,
     amount |-> 5,
     reason |-> "Perfect issue area alignment"]

ClosedWindowPenalty(scores) ==
    [applies |-> scores["timeline_urgency"].score = 0,
     amount |-> 0 - 20,
     reason |-> "Application window closed"]

_apply_adjustments(n, g, scores) ==
    LET rules == <<StrongMatchBonus(scores), NoOverlapPenalty(scores),
                   PerfectAlignmentBonus(scores), ClosedWindowPenalty(scores)>>
        applied == SelectSeq(rules, LAMBDA r : r.applies)
        RECURSIVE Sum(_)
        Sum(i) == IF i = 0 THEN 0 ELSE Sum(i - 1) + applied[i].amount
    IN  [total |-> Sum(Len(applied)),
         reasons |-> [i \in DOMAIN applied |-> applied[i].reason]]

\* only the word "unclear" marks a score as unclear
MarksUnclear_ByWord(details) == Contains(lower(details), <<"unclear">>)

\* "not specified" in details.lower() or "unclear" in details.lower()
MarksUnclear(details) ==
    \/ Contains(lower(details), <<"not", "specified">>)
    \/ Contains(lower(details), <<"unclear">>)

RECURSIVE SumScores(_, _)
SumScores(scores, i) ==
    IF i = 0 THEN 0 ELSE SumScores(scores, i - 1) + scores[ScoreKeys[i]].score

\* a confidence read from the average score alone
_calculate_confidence_ByAverage(scores) ==
    IF SumScores(scores, Len(ScoreKeys)) >= 700 * Len(ScoreKeys) THEN "high"
    ELSE "medium"

_calculate_confidence(scores) ==
    LET unclear_count ==
            Cardinality({i \in DOMAIN ScoreKeys : MarksUnclear(scores[ScoreKeys[i]].details)})
    IN  IF unclear_count >= 3 THEN "low"
        ELSE IF unclear_count >= 1 THEN "medium"
        ELSE IF SumScores(scores, Len(ScoreKeys)) >= 700 * Len(ScoreKeys) THEN "high"
        ELSE "medium"

\* the list left in the order it was built
SortDescending_Unsorted(s) == s

\* a descending sort that puts the later of two equal keys first
SortDescending_TiesReversed(s) ==
    LET Before(j, i) == s[j].k > s[i].k \/ (s[j].k = s[i].k /\ j > i)
        Place(i) == 1 + Cardinality({j \in DOMAIN s : Before(j, i)})
    IN  [p \in DOMAIN s |-> s[CHOOSE i \in DOMAIN s : Place(i) = p]]

\* list.sort(key=..., reverse=True) and sorted(..., reverse=True) on a list of
\* records with the key in field k: descending, and stable (equal keys keep
\* the order they had)
SortDescending(s) ==
    LET Sorted(v) ==
            LET Before(j, i) == v[j].k > v[i].k \/ (v[j].k = v[i].k /\ j < i)
                Place(i) == 1 + Cardinality({j \in DOMAIN v : Before(j, i)})
            IN  [p \in DOMAIN v |-> v[CHOOSE i \in DOMAIN v : Place(i) = p]]
    IN  \* the list is evaluated once, then sorted
        CHOOSE out \in {Sorted(v) : v \in {s}} : TRUE

\* key.replace('_', ' ')
SpacedKey(key) ==
    CASE key = "issue_area_match" -> <<"issue", "area", "match">>
      [] key = "scope_alignment" -> <<"scope", "alignment">>
      [] key = "funding_fit" -> <<"funding", "fit">>
      [] key = "eligibility_match" -> <<"eligibility", "match">>
      [] key = "timeline_urgency" -> <<"timeline", "urgency">>
      [] key = "strategic_fit" -> <<"strategic", "fit">>

_generate_insights(n, g, scores, adjustments) ==
    LET items == [i \in DOMAIN ScoreKeys |->
                    [k |-> scores[ScoreKeys[i]].score, key |-> ScoreKeys[i]]]
        top_scores == SortDescending(items)
        top3 == Take(top_scores, 3)
        strong3 == SelectSeq(top3, LAMBDA x : x.k >= 700)
        strengths == [i \in DOMAIN strong3 |-> scores[strong3[i].key].details]
        weak == SelectSeq(ScoreKeys, LAMBDA key : scores[key].score < 500)
        found == [i \in DOMAIN weak |-> scores[weak[i]].details]
        concerns == IF found = <<>>
                    THEN << <<"No", "major", "concerns", "identified">> >>
                    ELSE found
        issue == scores["issue_area_match"]
        elig == scores["eligibility_match"]
        item1 == IF issue.score < 700 /\ "missing_areas" \in DOMAIN issue
                    /\ issue.missing_areas # <<>>
                 THEN << <<"Consider", "how", "your", "work", "relates", "to:">>
                          \o Take(issue.missing_areas, 2) >>
                 ELSE <<>>
        item2 == IF elig.score < 700 /\ "concerns" \in DOMAIN elig
                    /\ elig.concerns # <<>>
                 THEN << <<"Verify", "eligibility:">> \o elig.concerns[1] >>
                 ELSE <<>>
        item3 == IF scores["timeline_urgency"].score < 600
                 THEN << <<"Check", "application", "timeline", "and", "prepare",
                           "documents", "early">> >>
                 ELSE <<>>
        triggered == item1 \o item2 \o item3
        action_items ==
            IF triggered = <<>>
            THEN << <<"Review", "full", "grant", "guidelines", "on", "OurSG", "portal">>,
                    <<"Prepare", "required", "documents">>,
                    <<"Contact", "grant", "agency", "if", "you", "have", "questions">> >>
            ELSE triggered
        top == top_scores[1]
        reasoning ==
            IF top.k >= 800
            THEN <<"Strong", "match", "due", "to">> \o SpacedKey(top.key) \o <<".">>
                    \o scores[top.key].details
            ELSE <<"Moderate", "match.">> \o scores[top.key].details
    IN  [reasoning |-> reasoning,
         strengths |-> Take(strengths, 3),
         concerns |-> Take(concerns, 3),
         action_items |-> Take(action_items, 3)]

\* grant.get("source_url", "").split("/")[-2] if grant.get("source_url") else None;
\* a URL is the list of its parts between the slashes
grant_id_of(g) ==
    IF ~Truthy(g.source_url) THEN None
    ELSE IF Len(g.source_url.val) < 2 THEN Raised
    ELSE Str(<<g.source_url.val[Len(g.source_url.val) - 1]>>)

\* the weighted sum of the component scores, in thousandths
WeightedTotal(scores) ==
    LET RECURSIVE Sum(_)
        Sum(i) == IF i = 0 THEN 0
                  ELSE Sum(i - 1) + scores[ScoreKeys[i]].score * weights[ScoreKeys[i]]
    IN  Sum(Len(ScoreKeys))

\* the sum left as it is
ClampScore_Unclamped(total, adjustment) == total + 1000 * adjustment

\* max(0, min(100, total + adjustment)), in thousandths
ClampScore(total, adjustment) == Max(0, Min(100000, total + 1000 * adjustment))

\* today is the value datetime.now() returns inside _score_timeline; h gives
\* the iteration order of the sets the scorers turn into lists
calculate_match_score(n, g, today, h) ==
    IF g.kind # "dict" THEN Raised
    ELSE
    LET scores ==
            [issue_area_match |-> _score_issue_areas(n, g, h),
             scope_alignment |-> _score_scope_tags(n, g, h),
             funding_fit |-> _score_funding(n, g),
             eligibility_match |-> _score_eligibility(n, g),
             timeline_urgency |-> _score_timeline(n, g, today),
             strategic_fit |-> _score_strategic_alignment(n, g, h)]
    IN  IF \E i \in DOMAIN ScoreKeys : Raises(scores[ScoreKeys[i]]) THEN Raised
        ELSE
        LET total_score == WeightedTotal(scores)
            adjustments == _apply_adjustments(n, g, scores)
            final_score == ClampScore(total_score, adjustments.total)
            insights == _generate_insights(n, g, scores, adjustments)
            grant_id == grant_id_of(g)
        IN  IF Raises(grant_id) THEN Raised
            ELSE [grant_id |-> grant_id,
                  grant_name |-> get(g.title, None),
                  agency |-> get(g.agency, None),
                  match_score |-> RoundHalfEven(final_score, 100),
                  confidence |-> _calculate_confidence(scores),
                  component_scores |->
                     [key \in ToSet(ScoreKeys) |-> scores[key].score],
                  detailed_scores |-> scores,
                  reasoning |-> insights.reasoning,
                  strengths |-> insights.strengths,
                  concerns |-> insights.concerns,
                  action_items |-> insights.action_items,
                  grant_url |-> get(g.source_url, None)]

\* matches[:top_n]: None keeps all, a negative n drops the last -n
Slice(s, top_n) ==
    IF top_n.kind = "none" THEN s
    ELSE IF top_n.val >= 0 THEN Take(s, top_n.val)
    ELSE Take(s, Max(0, Len(s) + top_n.val))

\* batch_match_grants: each grant is scored in turn; one whose scoring raises
\* is skipped by the except clause, which reads grant.get('title', 'Unknown')
\* and so raises itself when the record is no dict; the matches are then
\* sorted and cut.  Each element carries its sort key in k.
batch_match_grants(n, grants, top_n, today, h) ==
    LET Rank(results) ==
            IF \E i \in DOMAIN grants : Raises(results[i]) /\ grants[i].kind # "dict"
            THEN Raised
            ELSE
            LET kept == SelectSeq([i \in DOMAIN grants |-> i],
                                  LAMBDA i : ~Raises(results[i]))
                matches == [j \in DOMAIN kept |->
                              [k |-> results[kept[j]].match_score,
                               match |-> results[kept[j]],
                               grant_data |-> grants[kept[j]]]]
            IN  [returned |-> Slice(SortDescending(matches), top_n)]
    IN  \* every grant is scored once, then the results are ranked
        CHOOSE out \in
            {Rank(r) : r \in {[i \in DOMAIN grants |->
                                 calculate_match_score(n, grants[i], today, h)]}} : TRUE

----------------------------------------------------------------------------
(* scripts/build_grant_features.py: text utilities *)

\* list(xs): the list a comprehension builds, built once
list(xs) == xs \o <<>>

\* the characters of a string, as a list of one-character strings
Chars(s) == list([i \in 1..Len(s) |-> SubSeq(s, i, i)])

\* "".join(cs)
RECURSIVE Concat(_)
Concat(cs) ==
    IF Len(cs) = 0 THEN ""
    ELSE IF Len(cs) = 1 THEN cs[1]
    ELSE Concat(SubSeq(cs, 1, Len(cs) \div 2))
            \o Concat(SubSeq(cs, Len(cs) \div 2 + 1, Len(cs)))

\* str.lower() on the capital letters
LowerTable ==
    LET upper == "ABCDEFGHIJKLMNOPQRSTUVWXYZ"
        lower_case == "abcdefghijklmnopqrstuvwxyz"
    IN  [c \in {SubSeq(upper, i, i) : i \in 1..Len(upper)} |->
            LET at == CHOOSE i \in 1..Len(upper) : SubSeq(upper, i, i) = c
            IN  SubSeq(lower_case, at, at)]

\* int() on one digit
DigitTable ==
    LET digits == "0123456789"
    IN  [c \in {SubSeq(digits, i, i) : i \in 1..Len(digits)} |->
            (CHOOSE i \in 1..Len(digits) : SubSeq(digits, i, i) = c) - 1]

IsUpper(c) == c \in DOMAIN LowerTable

IsLower(c) == \E u \in DOMAIN LowerTable : LowerTable[u] = c

IsLetter(c) == IsUpper(c) \/ IsLower(c)

\* \d
IsDigit(c) == c \in DOMAIN DigitTable

\* \w
IsWordChar(c) == IsLetter(c) \/ IsDigit(c) \/ c = "_"

\* \s
IsSpace(c) == c \in {" ", "\t", "\n", "\r", "\f"}

\* str.lower()
str_lower(s) ==
    Concat([i \in 1..Len(s) |->
               IF IsUpper(SubSeq(s, i, i)) THEN LowerTable[SubSeq(s, i, i)]
               ELSE SubSeq(s, i, i)])

\* str.strip()
strip(s) ==
    LET inked == {i \in 1..Len(s) : ~IsSpace(SubSeq(s, i, i))}
    IN  IF inked = {} THEN ""
        ELSE SubSeq(s, CHOOSE i \in inked : \A j \in inked : i <= j,
                       CHOOSE i \in inked : \A j \in inked : i >= j)

\* WS_RE.sub(" ", s): every run of whitespace becomes one space
WS_RE_sub(s) ==
    LET cs == Chars(s)
        kept == SelectSeq([i \in 1..Len(s) |-> i],
                          LAMBDA i : ~IsSpace(cs[i]) \/ i = 1 \/ ~IsSpace(cs[i - 1]))
    IN  Concat([j \in DOMAIN kept |->
                   IF IsSpace(cs[kept[j]]) THEN " " ELSE cs[kept[j]]])

\* s or ""
OrEmpty(v) == IF Truthy(v) THEN v.val ELSE ""

\* clean(s) for an optional string s
clean(v) == strip(WS_RE_sub(OrEmpty(v)))

\* norm(s) for an optional string s
norm(v) == str_lower(clean(v))

\* "kw in t" on strings
In(kw, t) ==
    \E i \in 1..(Len(t) - Len(kw) + 1) : SubSeq(t, i, i + Len(kw) - 1) = kw

\* any(k in t for k in ks)
AnyIn(ks, t) == \E k \in ks : In(k, t)

\* sep.join(parts) for a list of strings
RECURSIVE Join(_, _)
Join(parts, sep) ==
    IF parts = <<>> THEN ""
    ELSE IF Len(parts) = 1 THEN parts[1]
    ELSE parts[1] \o sep \o Join(Tail(parts), sep)

\* the elements a for loop over v visits: the items of a list, the characters
\* of a string
Elements(v) ==
    IF v.kind = "str" THEN [i \in 1..Len(v.val) |-> Str(SubSeq(v.val, i, i))]
    ELSE v.val

\* join_nonempty(parts, sep) for a list of optional strings
join_nonempty(parts, sep) ==
    LET kept == SelectSeq(parts, LAMBDA q : clean(q) # "")
    IN  strip(Join([i \in DOMAIN kept |-> clean(kept[i])], sep))

\* s.split(sep) for a one-character separator
RECURSIVE split(_, _)
split(s, sep) ==
    LET cuts == {i \in 1..Len(s) : SubSeq(s, i, i) = sep}
    IN  IF cuts = {} THEN <<s>>
        ELSE LET c == CHOOSE i \in cuts : \A j \in cuts : i <= j
             IN  <<SubSeq(s, 1, c - 1)>> \o split(SubSeq(s, c + 1, Len(s)), sep)

----------------------------------------------------------------------------
(* scripts/build_grant_features.py: taxonomies, issue areas, scope tags, KPI
   snippets *)

\* the ISSUE_AREAS dict, in insertion order
ISSUE_AREAS ==
    << [area |-> "ageing",
        kws |-> {"elderly", "senior", "ageing", "aging", "dementia", "retirement",
                 "caregiver"}],
       [area |-> "health",
        kws |-> {"health", "healthcare", "nursing", "clinic", "medical", "wellness",
                 "disease", "mental health"}],
       [area |-> "community",
        kws |-> {"community", "volunteer", "social service", "social services",
                 "family", "residents", "grassroots"}],
       [area |-> "education",
        kws |-> {"school", "students", "education", "training", "upskill", "reskill",
                 "workshop", "course", "learning"}],
       [area |-> "employment",
        kws |-> {"employment", "job", "jobs", "hiring", "recruit", "recruitment",
                 "career", "workforce"}],
       [area |-> "environment",
        kws |-> {"climate", "environment", "sustainability", "carbon", "recycling",
                 "green", "biodiversity"}],
       [area |-> "arts_culture",
        kws |-> {"arts", "culture", "heritage", "museum", "music", "dance", "theatre",
                 "literature"}],
       [area |-> "sports",
        kws |-> {"sport", "sports", "physical activity", "fitness", "exercise",
                 "team singapore", "youthcreates"}],
       [area |-> "youth",
        kws |-> {"youth", "young", "teen", "students", "youthcreates"}],
       [area |-> "disability_inclusion",
        kws |-> {"disability", "inclusive", "inclusion", "special needs",
                 "accessibility", "assistive"}],
       [area |-> "digital_tech",
        kws |-> {"digital", "technology", "tech", "software", "platform", "system",
                 "solution", "digitalisation", "digitalization"}] >>

\* the SCOPE_TAGS dict, in insertion order
SCOPE_TAGS ==
    << [tag |-> "training_manpower",
        kws |-> {"training", "attachment", "attachments", "leadership programme",
                 "talent", "capability", "manpower", "upskill", "reskill"}],
       [tag |-> "project_based",
        kws |-> {"project", "initiative", "scheme", "pilot", "implementation",
                 "deliverables"}],
       [tag |-> "equipment_capex",
        kws |-> {"equipment", "hardware", "device", "capex", "purchase", "procure",
                 "implementation cost"}],
       [tag |-> "operations_support",
        kws |-> {"operating cost", "operational", "opex", "recurring", "day-to-day",
                 "running cost"}],
       [tag |-> "research_evaluation",
        kws |-> {"research", "study", "evaluate", "evaluation", "impact assessment",
                 "data collection"}] >>

KPI_MARKERS ==
    {"kpi", "key performance", "outcome", "deliverable", "target", "objective",
     "milestone", "impact", "indicator", "measure", "measurable", "must achieve",
     "should achieve"}

\* the names of the issue areas and of the scope tags in the order sorted()
\* gives to strings
TagOrder ==
    <<"ageing", "arts_culture", "community", "digital_tech", "disability_inclusion",
      "education", "employment", "environment", "equipment_capex", "health",
      "operations_support", "project_based", "research_evaluation", "sports",
      "training_manpower", "youth">>

\* sorted(set(hits)) for a list of tag names
sorted_set(hits) == SelectSeq(TagOrder, LAMBDA a : a \in ToSet(hits))

has_digital_tech(text) ==
    LET Both(t) ==
            /\ AnyIn({"digital", "technology", "tech", "digitalisation",
                      "digitalization"}, t)
            /\ AnyIn({"platform", "system", "software", "solution", "transformation",
                      "adopt", "adoption", "implement"}, t)
    IN  CHOOSE out \in {Both(t) : t \in {norm(Str(text))}} : TRUE

extract_issue_areas(text) ==
    LET Hits(t) ==
            LET found == SelectSeq(ISSUE_AREAS,
                             LAMBDA e : e.area # "digital_tech" /\ AnyIn(e.kws, t))
            IN  [i \in DOMAIN found |-> found[i].area]
    IN  CHOOSE out \in
            {sorted_set(hits \o (IF has_digital_tech(text)
                                  THEN <<"digital_tech">> ELSE <<>>)) :
                hits \in {Hits(t) : t \in {norm(Str(text))}}} : TRUE

extract_scope_tags(text) ==
    LET Hits(t) ==
            LET found == SelectSeq(SCOPE_TAGS, LAMBDA e : AnyIn(e.kws, t))
            IN  [i \in DOMAIN found |-> found[i].tag]
    IN  CHOOSE out \in {sorted_set(Hits(t)) : t \in {norm(Str(text))}} : TRUE

\* re.split(r"(?<=[.!?])\s+", s) for a cleaned s, whose whitespace is single
\* spaces: the cuts are the spaces that follow a full stop, ! or ?
RECURSIVE SentenceSplit(_)
SentenceSplit(s) ==
    LET cuts == {i \in 2..Len(s) : SubSeq(s, i, i) = " "
                                     /\ SubSeq(s, i - 1, i - 1) \in {".", "!", "?"}}
    IN  IF cuts = {} THEN <<s>>
        ELSE LET c == CHOOSE i \in cuts : \A j \in cuts : i <= j
             IN  <<SubSeq(s, 1, c - 1)>> \o SentenceSplit(SubSeq(s, c + 1, Len(s)))

split_lines_for_kpi(text) ==
    LET pieces == split(text, "\n")
        cleaned == [i \in DOMAIN pieces |-> clean(Str(pieces[i]))]
        lines == SelectSeq(cleaned, LAMBDA x : x # "")
        parts == SentenceSplit(clean(Str(text)))
        kept == SelectSeq(parts, LAMBDA q : clean(Str(q)) # "")
    IN  IF lines # <<>> THEN lines
        ELSE [i \in DOMAIN kept |-> clean(Str(kept[i]))]

\* re.search(r"\b\d{1,3}(?:,\d{3})*\b", line): a run of one to three digits
\* with no word character before it or after it
HasCount(line) ==
    LET cs == Chars(line)
        Word(i) == i >= 1 /\ i <= Len(cs) /\ IsWordChar(cs[i])
    IN  \E i \in 1..Len(cs), n \in 1..3 :
           /\ i + n - 1 <= Len(cs)
           /\ \A j \in i..(i + n - 1) : IsDigit(cs[j])
           /\ ~Word(i - 1)
           /\ ~Word(i + n)

\* the default of the parameter max_snippets
max_snippets == 8

extract_kpi_snippets(text) ==
    LET Wanted(line) ==
            LET Marked(l) ==
                    \/ AnyIn(KPI_MARKERS, l)
                    \/ /\ HasCount(line)
                       /\ AnyIn({"participants", "beneficiaries", "sessions",
                                 "hours", "weeks", "months"}, l)
            IN  CHOOSE out \in {Marked(l) : l \in {norm(Str(line))}} : TRUE
        out == SelectSeq(split_lines_for_kpi(text), Wanted)
    IN  IF norm(Str(text)) = "" THEN <<>>
        ELSE [i \in 1..Min(max_snippets, Len(out)) |-> clean(Str(out[i]))]

----------------------------------------------------------------------------
(* scripts/build_grant_features.py: regular expressions, funding, application
   window.  A regular expression is matched as the backtracking matcher of
   re does: X_RE(cs, i) is the match that starts at character i, if any.
   Where a matcher needs a position more than once it is computed once, as
   the only element of a set. *)

NoMatch == [matched |-> FALSE]

\* whether character i of cs exists and is a word character, a digit, a space
WordAt(cs, i) == i >= 1 /\ i <= Len(cs) /\ IsWordChar(cs[i])

DigitAt(cs, i) == i >= 1 /\ i <= Len(cs) /\ IsDigit(cs[i])

SpaceAt(cs, i) == i >= 1 /\ i <= Len(cs) /\ IsSpace(cs[i])

\* the last character of the run of digits that starts at i (i - 1 when
\* character i is no digit)
RunEnd(cs, i) ==
    CHOOSE e \in (i - 1)..Len(cs) :
        (\A j \in i..e : IsDigit(cs[j])) /\ ~DigitAt(cs, e + 1)

\* the first character from i on that is no whitespace (\s* is skipped)
SkipSpace(cs, i) ==
    CHOOSE q \in i..(Len(cs) + 1) :
        (\A j \in i..(q - 1) : IsSpace(cs[j])) /\ ~SpaceAt(cs, q)

\* int() of the digits among characters a..b, the commas left out
RECURSIVE DigitsValue(_, _, _)
DigitsValue(cs, a, b) ==
    IF b < a THEN 0
    ELSE IF IsDigit(cs[b]) THEN 10 * DigitsValue(cs, a, b - 1) + DigitTable[cs[b]]
    ELSE DigitsValue(cs, a, b - 1)

\* re.finditer: the matches from character p on, leftmost first and not
\* overlapping; ms[i] is the match that starts at i
finditer(ms, p) ==
    LET scan[q \in 1..(Len(ms) + 1)] ==
            IF q > Len(ms) THEN <<>>
            ELSE IF ms[q].matched THEN <<ms[q]>> \o scan[ms[q].end + 1]
            ELSE scan[q + 1]
    IN  scan[p]

\* PERCENT_RE = (\d+(?:\.\d+)?)\s*% ; the value is float(group 1) in tenths
\* (the texts of the model carry at most one decimal place)
PERCENT_RE(cs, i) ==
    LET Ends(e1, e2) ==
            LET fraction == e2 > e1
                after2 == SkipSpace(cs, e2 + 1)
                after1 == SkipSpace(cs, e1 + 1)
                whole == 10 * DigitsValue(cs, i, e1)
            IN  IF fraction /\ after2 <= Len(cs) /\ cs[after2] = "%"
                THEN [matched |-> TRUE, start |-> i, end |-> after2,
                      value |-> whole + DigitTable[cs[e1 + 2]]]
                ELSE IF after1 <= Len(cs) /\ cs[after1] = "%"
                THEN [matched |-> TRUE, start |-> i, end |-> after1, value |-> whole]
                ELSE NoMatch
        \* the digits after a point that follows the run ending at e1, if any
        Fraction(e1) ==
            IF e1 + 2 <= Len(cs) /\ cs[e1 + 1] = "." /\ IsDigit(cs[e1 + 2])
            THEN RunEnd(cs, e1 + 2) ELSE e1
    IN  IF ~DigitAt(cs, i) THEN NoMatch
        ELSE CHOOSE out \in
                UNION {{Ends(e1, e2) : e2 \in {Fraction(e1)}} :
                          e1 \in {RunEnd(cs, i)}} : TRUE

\* MONEY_RE = \b(?:S?\$)\s*(\d{1,3}(?:,\d{3})*(?:\.\d+)?)\b, ignoring case;
\* the value is float(group 1 without commas) in dollars (the texts of the
\* model carry whole amounts).  The \b in front needs a word character on
\* one side: the S, or the character before a bare $.
MONEY_RE(cs, i) ==
    LET with_s == i + 1 <= Len(cs) /\ cs[i] \in {"S", "s"} /\ cs[i + 1] = "$"
                    /\ ~WordAt(cs, i - 1)
        bare == i <= Len(cs) /\ cs[i] = "$" /\ WordAt(cs, i - 1)
        \* the amount starts at q, its first digits end at e1 and its comma
        \* groups at e
        Groups(e1) ==
            LET Group(k) == /\ e1 + 4 * k <= Len(cs)
                            /\ cs[e1 + 4 * k - 3] = ","
                            /\ \A j \in (e1 + 4 * k - 2)..(e1 + 4 * k) : IsDigit(cs[j])
            IN  e1 + 4 * (CHOOSE g \in 0..Len(cs) :
                             (\A k \in 1..g : Group(k)) /\ ~Group(g + 1))
        Ends(q, e1, e) ==
            LET fraction == e + 2 <= Len(cs) /\ cs[e + 1] = "." /\ IsDigit(cs[e + 2])
            IN  IF e1 - q + 1 > 3 THEN NoMatch
                ELSE IF fraction /\ ~WordAt(cs, RunEnd(cs, e + 2) + 1)
                THEN [matched |-> TRUE, start |-> i, end |-> RunEnd(cs, e + 2),
                      value |-> DigitsValue(cs, q, e)]
                ELSE IF ~WordAt(cs, e + 1)
                THEN [matched |-> TRUE, start |-> i, end |-> e,
                      value |-> DigitsValue(cs, q, e)]
                ELSE IF e > e1
                THEN [matched |-> TRUE, start |-> i, end |-> e - 4,
                      value |-> DigitsValue(cs, q, e - 4)]
                ELSE NoMatch
        From(q) ==
            IF ~DigitAt(cs, q) THEN NoMatch
            ELSE CHOOSE out \in
                    UNION {{Ends(q, e1, e) : e \in {Groups(e1)}} :
                              e1 \in {RunEnd(cs, q)}} : TRUE
    IN  IF ~(with_s \/ bare) THEN NoMatch
        ELSE CHOOSE out \in
                {From(q) : q \in {SkipSpace(cs, IF with_s THEN i + 2 ELSE i + 1)}} :
                TRUE

CAP_MARKERS == {"cap", "capped", "up to", "maximum", "max", "not exceed", "no more than"}

COFUND_MARKERS ==
    {"co-fund", "cofund", "co-funding", "co funding", "co-funded", "co funded",
     "match", "matched", "co-pay", "copay"}

\* the characters looked at on each side of an amount for a cap marker
CapWindow == 80

\* max() of a non-empty list of numbers
MaxOf(xs) == CHOOSE x \in ToSet(xs) : \A y \in ToSet(xs) : x >= y

\* x or None for a string x
OrNone_Kept(x) == Str(x)

\* x or None, keeping only the first characters of x
OrNone_Truncated(x) == IF x = "" THEN None ELSE Str(SubSeq(x, 1, Min(Len(x), 8)))

OrNone(x) == IF x = "" THEN None ELSE Str(x)

\* extract_funding(raw_text) for an optional string; a match that starts at
\* character i has m.start() = i - 1
extract_funding(raw_text) ==
    LET Percents(raw) ==
            finditer(list([i \in 1..Len(raw) |-> PERCENT_RE(Chars(raw), i)]), 1)
        Capped(raw) ==
            LET low == norm(Str(raw))
                amounts ==
                    finditer(list([i \in 1..Len(raw) |-> MONEY_RE(Chars(raw), i)]), 1)
                Window(pos) == SubSeq(low, Max(0, pos - CapWindow) + 1,
                                      Min(Len(low), pos + CapWindow))
            IN  SelectSeq(amounts, LAMBDA m : AnyIn(CAP_MARKERS, Window(m.start - 1)))
        Extract(raw, percents, capped) ==
            [percent_max |->
                IF percents # <<>>
                THEN Num(MaxOf([i \in DOMAIN percents |-> percents[i].value]))
                ELSE None,
             cap_amount_sgd |->
                IF capped # <<>> THEN Num(capped[1].value) ELSE None,
             mentions_cofunding |-> Bool(AnyIn(COFUND_MARKERS, norm(Str(raw)))),
             raw |-> OrNone(raw)]
    IN  CHOOSE out \in
            UNION {{Extract(raw, percents, capped) :
                       percents \in {Percents(raw)}, capped \in {Capped(raw)}} :
                      raw \in {clean(raw_text)}} : TRUE

\* the month names of DATE_RE in the order of its alternation, with MONTH_MAP
MONTH_MAP ==
    << [name |-> "jan", num |-> 1], [name |-> "feb", num |-> 2],
       [name |-> "mar", num |-> 3], [name |-> "apr", num |-> 4],
       [name |-> "may", num |-> 5], [name |-> "jun", num |-> 6],
       [name |-> "jul", num |-> 7], [name |-> "aug", num |-> 8],
       [name |-> "sep", num |-> 9], [name |-> "sept", num |-> 9],
       [name |-> "oct", num |-> 10], [name |-> "nov", num |-> 11],
       [name |-> "dec", num |-> 12] >>

\* DATE_RE = \b(\d{1,2})\s+(Jan|...|Sep|Sept|...|Dec)\s+(\d{4})\b, ignoring
\* case: the groups of the match that starts at i, as numbers
DATE_RE(cs, i) ==
    LET \* the day ends at e1 and the month name starts at m
        Ends(e1, m) ==
            LET \* where alternative k leaves the year, when the rest matches
                YearAt(k) == SkipSpace(cs, m + Len(MONTH_MAP[k].name))
                Fits(k) ==
                    /\ m + Len(MONTH_MAP[k].name) - 1 <= Len(cs)
                    /\ str_lower(Concat(SubSeq(cs, m, m + Len(MONTH_MAP[k].name) - 1)))
                          = MONTH_MAP[k].name
                    /\ SpaceAt(cs, m + Len(MONTH_MAP[k].name))
                    /\ \E y \in {YearAt(k)} :
                          /\ \A j \in y..(y + 3) : DigitAt(cs, j)
                          /\ ~WordAt(cs, y + 4)
                fitting == {k \in DOMAIN MONTH_MAP : Fits(k)}
                Groups(k, y) ==
                    [matched |-> TRUE, start |-> i, end |-> y + 3,
                     day |-> DigitsValue(cs, i, e1),
                     mon |-> MONTH_MAP[k].num,
                     year |-> DigitsValue(cs, y, y + 3)]
            IN  IF e1 - i + 1 > 2 \/ m = e1 + 1 \/ fitting = {} THEN NoMatch
                ELSE CHOOSE out \in
                        UNION {{Groups(k, y) : y \in {YearAt(k)}} :
                                  k \in {CHOOSE k \in fitting :
                                            \A j \in fitting : k <= j}} : TRUE
    IN  IF ~DigitAt(cs, i) \/ WordAt(cs, i - 1) THEN NoMatch
        ELSE CHOOSE out \in
                UNION {{Ends(e1, m) : m \in {SkipSpace(cs, e1 + 1)}} :
                          e1 \in {RunEnd(cs, i)}} : TRUE

\* _match_to_iso(m): the ISO date as a triple, or None when datetime() refuses
\* the day, month and year
_match_to_iso(m) ==
    IF m.year >= 1 /\ m.day >= 1 /\ m.day <= DaysInMonth(m.year, m.mon)
    THEN Str(<<m.year, m.mon, m.day>>)
    ELSE None

\* the dates left in the order and number in which they were found
sorted_dates_AsFound(dates) == dates

\* sorted(set(dates)) for ISO date strings: the order of the strings is the
\* order of the dates
sorted_dates(dates) ==
    LET S == ToSet(dates)
        Key(d) == 10000 * d[1] + 100 * d[2] + d[3]
        Place(d) == 1 + Cardinality({e \in S : Key(e) < Key(d)})
    IN  [p \in 1..Cardinality(S) |-> CHOOSE d \in S : Place(d) = p]

\* extract_application_window(when_text) for an optional string
extract_application_window(when_text) ==
    LET Dates(raw) ==
            LET cs == Chars(raw)
                found == finditer(list([i \in 1..Len(cs) |-> DATE_RE(cs, i)]), 1)
                isos == [i \in DOMAIN found |-> _match_to_iso(found[i])]
                valid == SelectSeq(isos, LAMBDA iso : Truthy(iso))
            IN  sorted_dates([i \in DOMAIN valid |-> valid[i].val])
        Extract(raw, dates) ==
            IF raw = ""
            THEN [is_open_all_year |-> None, dates |-> <<>>,
                  start_date |-> None, end_date |-> None, raw |-> None]
            ELSE [is_open_all_year |->
                     Bool(AnyIn({"throughout the year", "all year",
                                 "all year round", "year-round", "year round",
                                 "open throughout"}, norm(Str(raw)))),
                  dates |-> dates,
                  start_date |-> IF dates # <<>> THEN Str(dates[1]) ELSE None,
                  end_date |-> IF Len(dates) >= 2 THEN Str(dates[Len(dates)])
                               ELSE IF dates # <<>> THEN Str(dates[1])
                               ELSE None,
                  raw |-> Str(raw)]
    IN  CHOOSE out \in
            UNION {{Extract(raw, dates) : dates \in {Dates(raw)}} :
                      raw \in {clean(when_text)}} : TRUE

----------------------------------------------------------------------------
(* scripts/build_grant_features.py: phrase tags, other sections, build_profile *)

STOPWORDS ==
    {"a", "an", "the", "and", "or", "but", "if", "then", "else", "when", "while",
     "where", "what", "how", "who", "whom", "which", "to", "of", "in", "on", "at",
     "for", "from", "by", "with", "without", "into", "over", "under", "about",
     "as", "is", "are", "was", "were", "be", "been", "being", "this", "that",
     "these", "those", "it", "its", "they", "them", "their", "you", "your", "we",
     "our", "i", "me", "my", "may", "might", "can", "could", "should", "shall",
     "will", "would"}

\* TOKEN_RE = [A-Za-z][A-Za-z0-9']+ : a letter and the longest run of letters,
\* digits and apostrophes after it, which must not be empty
TOKEN_RE(cs, i) ==
    LET Inner(j) == j <= Len(cs) /\ (IsLetter(cs[j]) \/ IsDigit(cs[j]) \/ cs[j] = "'")
    IN  IF i > Len(cs) \/ ~IsLetter(cs[i]) \/ ~Inner(i + 1) THEN NoMatch
        ELSE CHOOSE out \in
                {[matched |-> TRUE, start |-> i, end |-> e,
                  word |-> Concat(SubSeq(cs, i, e))] :
                    e \in {CHOOSE k \in i..Len(cs) :
                              (\A j \in (i + 1)..k : Inner(j)) /\ ~Inner(k + 1)}} : TRUE

\* tokenize(text)
tokenize(text) ==
    LET Words(cs) ==
            LET found == finditer(list([i \in 1..Len(cs) |-> TOKEN_RE(cs, i)]), 1)
            IN  [i \in DOMAIN found |-> str_lower(found[i].word)]
    IN  CHOOSE out \in {Words(cs) : cs \in {Chars(text)}} : TRUE

\* the top_n that build_profile passes to make_phrase_tags
PhraseTagLimit == 25

\* make_phrase_tags(text, top_n): the bigrams of the kept tokens by falling
\* count; Counter lists equal counts in the order of first appearance
make_phrase_tags(text, top_n) ==
    LET Tags(toks) ==
            LET bigrams == [i \in 1..(Len(toks) - 1) |-> toks[i] \o " " \o toks[i + 1]]
                firsts == SelectSeq([i \in DOMAIN bigrams |-> i],
                             LAMBDA i : \A j \in 1..(i - 1) : bigrams[j] # bigrams[i])
                kept == SelectSeq(firsts,
                           LAMBDA i : bigrams[i] \notin {"grant application",
                                                         "application form",
                                                         "more information"})
                counts == [j \in DOMAIN kept |->
                             [k |-> Cardinality({i \in DOMAIN bigrams :
                                                    bigrams[i] = bigrams[kept[j]]}),
                              phrase |-> bigrams[kept[j]]]]
                common == Take(SortDescending(counts), top_n)
            IN  [i \in DOMAIN common |-> common[i].phrase]
    IN  CHOOSE out \in
            {Tags(toks) : toks \in {SelectSeq(tokenize(text),
                                       LAMBDA t : t \notin STOPWORDS /\ Len(t) >= 3)}} :
            TRUE

KNOWN_HEADINGS ==
    {"about this grant", "who can apply?", "when to apply?", "when can i apply?",
     "how much funding can you receive?", "how to apply?"}

\* s.get("content") or []
ContentOf(section) ==
    IF Truthy(get(section.content, None)) THEN section.content ELSE List(<<>>)

\* extract_others_from_sections(sections) for a list of section dicts
extract_others_from_sections(sections) ==
    LET h(section) == clean(get(section.heading, None))
        content_list(section) ==
            LET content == ContentOf(section)
                kept == SelectSeq(content.val, LAMBDA x : clean(x) # "")
            IN  IF content.kind = "str"
                THEN IF clean(content) # "" THEN <<clean(content)>> ELSE <<>>
                ELSE [i \in DOMAIN kept |-> clean(kept[i])]
        others == SelectSeq(sections,
                     LAMBDA section : /\ h(section) # ""
                                      /\ str_lower(h(section)) \notin KNOWN_HEADINGS
                                      /\ content_list(section) # <<>>)
    IN  [i \in DOMAIN others |->
            [heading |-> h(others[i]), content |-> content_list(others[i])]]

\* record.get("sections", []) or []
SectionsOf(record) ==
    IF Truthy(get(record.sections, List(<<>>))) THEN record.sections.val ELSE <<>>

\* a build whose version is read from the clock
build_profile_Versioned(record, generated_at) ==
    [grant_profile |-> [generated_at |-> generated_at, version |-> generated_at],
     features |-> [generated_at |-> generated_at, method |-> "rule_based"],
     others |-> <<>>]

\* build_profile(record); generated_at is the instant datetime.now() returns.
\* A section that is no dict makes s.get raise.
build_profile(record, generated_at) ==
    LET about == clean(get(record.about, None))
        who == clean(get(record.who_can_apply, None))
        when == clean(get(record.when_to_apply, None))
        given == clean(get(record.funding, None))
        how == clean(get(record.how_to_apply, None))
        sections == SectionsOf(record)
        funding_heads == SelectSeq(sections,
                            LAMBDA section :
                               norm(get(section.heading, None))
                                  = "how much funding can you receive?")
        funding_txt ==
            IF given # "" THEN given
            ELSE IF funding_heads = <<>> THEN ""
            ELSE join_nonempty(Elements(ContentOf(funding_heads[1])), "\n")
        Build(combined_text) ==
            LET issue_areas == extract_issue_areas(combined_text)
                scope_tags == extract_scope_tags(combined_text)
                others == extract_others_from_sections(sections)
            IN  [grant_profile |->
                    [issue_areas |-> issue_areas,
                     scope_tags |-> scope_tags,
                     kpi_snippets |-> extract_kpi_snippets(combined_text),
                     funding |-> extract_funding(Str(funding_txt)),
                     application_window |-> extract_application_window(Str(when)),
                     evidence |->
                        [about |-> OrNone(about),
                         who_can_apply |-> OrNone(who),
                         when_to_apply |-> OrNone(when),
                         funding |-> OrNone(funding_txt),
                         how_to_apply |-> OrNone(how)],
                     others |-> others,
                     generated_at |-> generated_at,
                     version |-> 2],
                 features |->
                    [tags |-> sorted_set(issue_areas \o scope_tags),
                     phrase_tags |-> make_phrase_tags(combined_text, PhraseTagLimit),
                     generated_at |-> generated_at,
                     method |-> "rule_based"],
                 others |-> others]
    IN  IF \E i \in DOMAIN sections : sections[i].kind # "dict" THEN Raised
        ELSE CHOOSE out \in
                {Build(combined_text) :
                    combined_text \in
                        {Join(SelectSeq(<<about, who, when, funding_txt, how>>,
                                        LAMBDA x : x # ""), "\n")}} : TRUE

----------------------------------------------------------------------------
(* Inputs *)

\* the day of the evaluations, and two instants of it: midnight and later
Today == <<2025, 6, 15>>

Instants == {Midnight(Today) + t : t \in {0, TicksPerDay - 1}}

DateStr(d) == Str(d)

Window(open, start, end) ==
    [is_open_all_year |-> open, start_date |-> start, end_date |-> end]

Funding(cap, percent) == [cap_amount_sgd |-> cap, percent_max |-> percent]

Profile(areas, scopes, funding, window) ==
    [kind |-> "dict", issue_areas |-> areas, scope_tags |-> scopes,
     funding |-> funding, application_window |-> window]

GrantRecord(title, about, who, url, profile) ==
    [kind |-> "dict", title |-> title, agency |-> Str(<<"MSF">>), about |-> about,
     who_can_apply |-> who, source_url |-> url, grant_profile |-> profile]

NPOProfile(areas, types, fmin, fmax, urgency, org, reg, mission, description) ==
    [issue_areas |-> areas, project_types |-> types, funding_min |-> fmin,
     funding_max |-> fmax, funding_urgency |-> urgency, organization_type |-> org,
     registration_status |-> reg, mission |-> mission, description |-> description]

GrantUrl == Str(<<"https:", "", "oursggrants.gov.sg", "grants", "ssgacg", "instruction">>)

\* eligibility texts: one naming four of the fixed phrases, one naming two
WhoCharities ==
    <<"Registered", "charity", ",", "non-profit", "social", "service", "agencies">>

WhoLocal == <<"Singapore", "registered", "organisations">>

WhoAnyone == <<"open", "to", "all">>

AboutSeniors == <<"Funding", "for", "seniors", "care">>

AboutArts == <<"arts", "festival">>

\* the iteration orders of the sets a grant's scoring lists
HashOrders(n, g) ==
    LET gp == IF g.kind = "dict" /\ ProfileOf(g).kind = "dict"
              THEN ProfileOf(g) ELSE EmptyProfile
        about == IF g.kind = "dict" /\ get(g.about, None).kind = "str"
                 THEN lower(g.about.val) ELSE <<>>
    IN  [areas : Orders({LowerStrip(a) : a \in ToSet(gp.issue_areas)}),
         scopes : Orders({LowerStrip(a) : a \in ToSet(gp.scope_tags)}),
         words : Orders(KeyWords(about) \cap KeyWords(lower(n.mission \o n.description)))]

\* the inputs of the single scorers: one NPO and one grant, varied field by field
BaseNPO ==
    NPOProfile(<<"Ageing ">>, <<"training_manpower">>, 5000, 20000, "medium",
               <<"Non-Profit", "organisation">>, <<"Registered", "Charity">>,
               <<"Support", "seniors">>, <<"community", "care">>)

BaseProfile ==
    Profile(<<"ageing", "health">>, <<>>, Funding(Num(15000), None),
            Window(Bool(TRUE), None, None))

BaseGrant ==
    GrantRecord(Str(<<"Seniors", "Grant">>), Str(AboutSeniors), Str(WhoCharities),
                GrantUrl, BaseProfile)

\* the NPO and the grant of the worked example of the scoring engine
ExampleNPO ==
    NPOProfile(<<"ageing">>, <<>>, 5000, 20000, "medium", <<>>, <<>>, <<>>, <<>>)

ExampleGrant ==
    GrantRecord(Str(<<"Seniors", "Grant">>), Absent, Absent, GrantUrl, BaseProfile)

\* the grants collection, in the order stream() yields its documents: two
\* scraped grants and one stored without a source_url
ArtsUrl == Str(<<"https:", "", "oursggrants.gov.sg", "grants", "nacpg", "instruction">>)

GrantsCollection ==
    <<[id |-> "grant-1", data |-> BaseGrant],
      [id |-> "grant-2",
       data |-> GrantRecord(Str(<<"arts", "festival">>), Str(AboutArts), Absent,
                            ArtsUrl, BaseProfile)],
      [id |-> "grant-3", data |-> [ExampleGrant EXCEPT !.source_url = Absent]]>>

\* the npo_profiles collection before any swipe, and the user ids of the
\* requests: two saved profiles and one id without a profile
StoredProfiles ==
    [user_id \in {"user-1", "user-2"} |->
        [profile |-> IF user_id = "user-1" THEN BaseNPO ELSE ExampleNPO,
         liked_grants |-> <<>>, disliked_grants |-> <<>>]]

UserIds == {"user-1", "user-2", "user-3"}

\* a profile key that is a dict, missing, or null
ProfileShapes(profiles) == profiles \cup {Absent, None}

DateStrings ==
    {None, DateStr(<<2025, 1, 1>>), DateStr(<<2025, 6, 15>>), DateStr(<<2025, 6, 18>>),
     DateStr(<<2025, 7, 1>>), DateStr(<<2025, 8, 20>>), DateStr(<<2025, 2, 30>>)}

\* the NPO profiles and grant records of whole evaluations
EvalNPOs ==
    {NPOProfile(areas, kind.types, 5000, 20000, kind.urgency, org.type, org.reg,
                text.mission, text.description) :
        areas \in {<<>>, <<"Ageing ">>},
        kind \in {[types |-> <<>>, urgency |-> "medium"],
                  [types |-> <<"training_manpower">>, urgency |-> "Urgent"]},
        org \in {[type |-> <<"company">>, reg |-> <<>>],
                 [type |-> <<"Non-Profit", "organisation">>,
                  reg |-> <<"Registered", "Charity">>]},
        text \in {[mission |-> <<>>, description |-> <<>>],
                  [mission |-> <<"Support", "seniors">>,
                   description |-> <<"community", "care">>]}}
    \cup {ExampleNPO}

EvalWindows ==
    {Window(Bool(TRUE), DateStr(<<2025, 1, 1>>), DateStr(<<2025, 1, 31>>)),
     Window(None, None, None),
     Window(Bool(FALSE), DateStr(<<2025, 1, 1>>), DateStr(<<2025, 1, 31>>))}

EvalProfiles ==
    {Profile(areas, scopes, funding, window) :
        areas \in {<<>>, <<"ageing">>, <<"ageing", "health", "youth">>},
        scopes \in {<<>>, <<"project_based">>},
        funding \in {Funding(None, None), Funding(Num(4000), None),
                     Funding(Num(20000), Num(500))},
        window \in EvalWindows}

\* the records with every text present or absent, and four with a null in
\* place of a text or of the profile
EvalGrants ==
    {GrantRecord(Str(<<"Seniors", "Grant">>), about, who, GrantUrl, profile) :
        about \in {Absent, Str(AboutSeniors)},
        who \in {Absent, Str(WhoCharities)},
        profile \in EvalProfiles}
    \cup {[BaseGrant EXCEPT !.who_can_apply = None],
          [BaseGrant EXCEPT !.about = None],
          [BaseGrant EXCEPT !.title = None],
          [BaseGrant EXCEPT !.grant_profile = None],
          ExampleGrant}

----------------------------------------------------------------------------
(* State: one whole evaluation (npo, grant, now, result) and a second one of
   the same inputs (again); one call of a single scorer (scored); one call of
   batch_match_grants (batch, output); one call of build_profile (rec,
   built) *)

Idle == [idle |-> TRUE]

Init ==
    /\ npo = Idle
    /\ grant = Idle
    /\ now = 0
    /\ result = Idle
    /\ again = Idle
    /\ scored = Idle
    /\ batch = Idle
    /\ output = Idle
    /\ rec = Idle
    /\ built = Idle
    /\ rebuilt = Idle
    /\ funding_text = Idle
    /\ extracted = Idle
    /\ reextracted = Idle
    /\ when_input = Idle
    /\ extracted_window = Idle
    /\ grants_db = GrantsCollection
    /\ npo_profiles = StoredProfiles
    /\ swipes = <<>>
    /\ swiped_grants = {}
    /\ request = Idle
    /\ response = Idle

\* nothing has been called yet
Fresh == result = Idle /\ scored = Idle /\ batch = Idle /\ built = Idle

\* calculate_match_score(npo_profile, grant)
Evaluate ==
    /\ Fresh
    /\ \E n \in EvalNPOs, g \in EvalGrants :
         \E h \in HashOrders(n, g) :
            /\ npo' = n
            /\ grant' = g
            /\ now' = Midnight(Today) + TicksPerDay - 1
            /\ result' = calculate_match_score(n, g, now', h)
    /\ UNCHANGED <<again, scored, batch, output, builderVars, serverVars>>

\* calculate_match_score on the same profile and record at the same instant,
\* by an interpreter whose sets may iterate in another order
EvaluateAgain ==
    /\ result # Idle
    /\ again = Idle
    /\ \E h \in HashOrders(npo, grant) :
         again' = calculate_match_score(npo, grant, now, h)
    /\ UNCHANGED <<npo, grant, now, result, scored, batch, output,
                   builderVars, serverVars>>

\* the record of one call of a scorer
Call(name, n, g, t, out) ==
    [scorer |-> name, npo |-> n, grant |-> g, today |-> t, out |-> out]

ScoreIssueAreas ==
    /\ Fresh
    /\ \E areas \in {<<>>, <<"Ageing ">>, <<"ageing", "health">>, <<"youth">>},
          profile \in ProfileShapes(
             {[BaseProfile EXCEPT !.issue_areas = a] :
                 a \in {<<>>, <<"ageing">>, <<"ageing", " health">>,
                        <<"ageing", "health", "youth">>, <<"education">>}}) :
          LET n == [BaseNPO EXCEPT !.issue_areas = areas]
              g == [BaseGrant EXCEPT !.grant_profile = profile]
          IN  \E h \in HashOrders(n, g) :
                 scored' = Call("issue_area_match", n, g, 0, _score_issue_areas(n, g, h))
    /\ UNCHANGED <<npo, grant, now, result, again, batch, output,
                   builderVars, serverVars>>

ScoreScopeTags ==
    /\ Fresh
    /\ \E types \in {<<>>, <<"Training_Manpower">>,
                     <<"training_manpower", "project_based">>},
          profile \in ProfileShapes(
             {[BaseProfile EXCEPT !.scope_tags = a] :
                 a \in {<<>>, <<"project_based">>, <<"equipment_capex">>,
                        <<"training_manpower", "project_based">>,
                        <<"training_manpower", "project_based", "equipment_capex">>,
                        <<"training_manpower", "project_based", "equipment_capex",
                          "operations_support">>}}) :
          LET n == [BaseNPO EXCEPT !.project_types = types]
              g == [BaseGrant EXCEPT !.grant_profile = profile]
          IN  \E h \in HashOrders(n, g) :
                 scored' = Call("scope_alignment", n, g, 0, _score_scope_tags(n, g, h))
    /\ UNCHANGED <<npo, grant, now, result, again, batch, output,
                   builderVars, serverVars>>

ScoreFunding ==
    /\ Fresh
    /\ \E need \in {<<5000, 20000>>, <<5000, 5000>>, <<0, 10000>>},
          profile \in ProfileShapes(
             {[BaseProfile EXCEPT !.funding = Funding(cap, percent)] :
                 cap \in {None, Num(0), Num(4000), Num(5000), Num(15000), Num(20000),
                          Num(50000)},
                 percent \in {None, Num(0), Num(5), Num(500), Num(1000), Num(1500)}}) :
          LET n == [BaseNPO EXCEPT !.funding_min = need[1], !.funding_max = need[2]]
              g == [BaseGrant EXCEPT !.grant_profile = profile]
          IN  scored' = Call("funding_fit", n, g, 0, _score_funding(n, g))
    /\ UNCHANGED <<npo, grant, now, result, again, batch, output,
                   builderVars, serverVars>>

ScoreEligibility ==
    /\ Fresh
    /\ \E org \in {<<"company">>, <<"Non-Profit", "organisation">>,
                   <<"social", "service", "agency">>, <<"ssa">>},
          reg \in {<<>>, <<"Registered", "Charity">>, <<"IPC">>, <<"society">>},
          who \in {Absent, None, Str(<<>>), Str(WhoCharities), Str(WhoLocal),
                   Str(WhoAnyone), Str(WhoCharities \o <<"in", "Singapore">>)} :
          LET n == [BaseNPO EXCEPT !.organization_type = org,
                                   !.registration_status = reg]
              g == [BaseGrant EXCEPT !.who_can_apply = who]
          IN  scored' = Call("eligibility_match", n, g, 0, _score_eligibility(n, g))
    /\ UNCHANGED <<npo, grant, now, result, again, batch, output,
                   builderVars, serverVars>>

ScoreTimeline ==
    /\ Fresh
    /\ \E urgency \in {"low", "medium", "Urgent"},
          t \in Instants,
          profile \in ProfileShapes(
             {[BaseProfile EXCEPT !.application_window = Window(open, start, end)] :
                 open \in {None, Bool(FALSE), Bool(TRUE)},
                 start \in DateStrings, end \in DateStrings}) :
          LET n == [BaseNPO EXCEPT !.funding_urgency = urgency]
              g == [BaseGrant EXCEPT !.grant_profile = profile]
          IN  scored' = Call("timeline_urgency", n, g, t, _score_timeline(n, g, t))
    /\ UNCHANGED <<npo, grant, now, result, again, batch, output,
                   builderVars, serverVars>>

ScoreStrategicAlignment ==
    /\ Fresh
    /\ \E text \in {[mission |-> <<>>, description |-> <<>>],
                    [mission |-> <<"Support", "seniors">>,
                     description |-> <<"community", "care">>],
                    [mission |-> <<"aid", "for", "all">>, description |-> <<>>]},
          about \in {Absent, None, Str(<<>>), Str(AboutSeniors), Str(AboutArts)},
          title \in {Absent, None, Str(<<"Seniors", "Grant">>)} :
          LET n == [BaseNPO EXCEPT !.mission = text.mission,
                                   !.description = text.description]
              g == [BaseGrant EXCEPT !.about = about, !.title = title]
          IN  \E h \in HashOrders(n, g) :
                 scored' = Call("strategic_fit", n, g, 0,
                                _score_strategic_alignment(n, g, h))
    /\ UNCHANGED <<npo, grant, now, result, again, batch, output,
                   builderVars, serverVars>>

Next ==
    \/ Evaluate
    \/ ScoreIssueAreas
    \/ ScoreScopeTags
    \/ ScoreFunding
    \/ ScoreEligibility
    \/ ScoreTimeline
    \/ ScoreStrategicAlignment

Spec == Init /\ [][Next]_vars

\* the grant records of a batch: three that score (the first and the third to
\* the same score), one whose scoring raises, and one that is no dict
BatchGrants ==
    {GrantRecord(Str(<<"Seniors", "Grant">>), Str(AboutSeniors), Str(WhoCharities),
                 GrantUrl, BaseProfile),
     GrantRecord(Str(<<"arts", "festival">>), Str(AboutArts), Absent,
                 GrantUrl, Absent),
     GrantRecord(Str(<<"Seniors", "care">>), Str(AboutSeniors), Str(WhoCharities),
                 GrantUrl, BaseProfile),
     GrantRecord(Str(<<"Seniors", "Grant">>), Str(AboutSeniors), None,
                 GrantUrl, BaseProfile),
     None}

GrantLists == UNION {[1..k -> BatchGrants] : k \in 0..MaxGrants}

\* top_n: MatchRequest.limit is Optional[int]
TopNs == {None} \cup {Num(k) : k \in (0 - 1)..MaxGrants}

\* batch_match_grants(npo_profile, grants, top_n)
BatchMatch ==
    /\ Fresh
    /\ \E grants \in GrantLists, top_n \in TopNs :
         /\ batch' = [npo |-> BaseNPO, grants |-> grants, top_n |-> top_n,
                      today |-> Midnight(Today)]
         /\ output' = batch_match_grants(BaseNPO, grants, top_n, Midnight(Today),
                          [areas |-> <<"ageing", "health">>, scopes |-> <<>>,
                           words |-> <<"seniors", "care">>])
    /\ UNCHANGED <<npo, grant, now, result, again, scored, builderVars, serverVars>>

NextBatch == BatchMatch

SpecBatch == Init /\ [][NextBatch]_vars

\* two evaluations of one pair at one instant
NextTwice == Evaluate \/ EvaluateAgain

SpecTwice == Init /\ [][NextTwice]_vars

\* a scraped record, as build_profile reads it
RawRecord(about, who, when, funding, how, sections) ==
    [kind |-> "dict", about |-> about, who_can_apply |-> who, when_to_apply |-> when,
     funding |-> funding, how_to_apply |-> how, sections |-> sections]

Section(heading, content) == [kind |-> "dict", heading |-> heading, content |-> content]

\* the sections of a scraped page: the funding section, one with an unknown
\* heading, and ones whose heading or content is missing
PageSections ==
    <<Section(Str("How much funding can you receive?"),
              List(<<Str("Up to S$5,000"), None, Str(" per  project ")>>)),
      Section(Str(" FAQ "), Str("See  website")),
      Section(None, List(<<Str("x")>>)),
      Section(Str("Notes"), Absent),
      Section(Absent, None)>>

\* the records in which every field is missing, each by absence or by null
MissingRecords ==
    {RawRecord(about, who, when, funding, how, sections) :
        about \in {Absent, None}, who \in {Absent, None}, when \in {Absent, None},
        funding \in {Absent, None}, how \in {Absent, None},
        sections \in {Absent, None}}

\* records with some fields present, and one whose sections hold a null
PartialRecords ==
    {RawRecord(text.about, who, when, funding, text.how, sections) :
        text \in {[about |-> Absent, how |-> None],
                   [about |-> Str("Support for  seniors\n and caregivers."),
                    how |-> Str("Apply online")]},
        who \in {None, Str("Registered charities")},
        when \in {Absent, Str("  "), Str("Open all year round"),
                   Str("1 Mar 2025 to 30 Feb 2025")},
        funding \in {Absent, None, Str(""), Str("Up to S$12,000 or 80% of cost")},
        sections \in {Absent, None, List(<<>>), List(PageSections), List(<<None>>)}}

\* build_profile(record)
BuildProfile ==
    /\ Fresh
    /\ \E r \in MissingRecords \cup PartialRecords, t \in Instants :
         /\ rec' = r
         /\ built' = build_profile(r, t)
    /\ UNCHANGED <<npo, grant, now, result, again, scored, batch, output, rebuilt,
                   funding_text, extracted, reextracted, when_input,
                   extracted_window, serverVars>>

\* build_profile(record) once more on the record of the first call, which no
\* statement of build_profile assigns to
BuildProfileAgain ==
    /\ built # Idle
    /\ rebuilt = Idle
    /\ \E t \in Instants : rebuilt' = build_profile(rec, t)
    /\ UNCHANGED <<npo, grant, now, result, again, scored, batch, output, rec, built,
                   funding_text, extracted, reextracted, when_input,
                   extracted_window, serverVars>>

NextBuild == BuildProfile \/ BuildProfileAgain

SpecBuild == Init /\ [][NextBuild]_vars

\* limit of get_recommendations
Limits == {1, 20}

\* the swipes endpoint: a swipe document is what save_swipe adds (its server
\* timestamp is its place in the collection); the request's grant_id and
\* match_score are those of a card of the last recommendations served to
\* the user
SwipeActions == {"like", "dislike"}

\* db.collection('swipes').where('user_id', '==', user_id), as the set of
\* grant ids get_recommendations collects
SwipedGrants(all_swipes, user_id) ==
    {all_swipes[i].grant_id : i \in {j \in DOMAIN all_swipes :
                                        all_swipes[j].user_id = user_id}}

\* the grants get_recommendations keeps: those whose source_url (the
\* document id when there is none) is no swiped grant id
UnswipedGrants(all_docs, swiped) ==
    LET kept == SelectSeq(all_docs,
                          LAMBDA doc : get(doc.data.source_url, Str(<<doc.id>>))
                                          \notin swiped)
    IN  [i \in DOMAIN kept |-> [firestore_id |-> kept[i].id] @@ kept[i].data]

\* raise HTTPException(status_code=404, ...) inside the try block of a
\* handler: "except Exception" catches it and raises a 500 whose detail is
\* the text of the caught exception
CaughtNotFound(detail) == [status_code |-> 500, detail |-> "404: " \o detail]

\* raise HTTPException(status_code=500, detail=str(e)) for any other exception
ServerError == [status_code |-> 500, detail |-> "error"]

\* the status of an HTTP reply: that of the HTTPException, or 200 for a body
StatusOf(out) == IF "status_code" \in DOMAIN out THEN out.status_code ELSE 200

\* GET /api/npo/profile/{user_id}
get_npo_profile(user_id, all_profiles) ==
    IF user_id \notin DOMAIN all_profiles
    THEN CaughtNotFound("Profile not found")
    ELSE all_profiles[user_id]

\* the iteration orders the server's evaluations meet
ServerOrders ==
    [areas |-> <<"ageing", "health">>, scopes |-> <<>>, words |-> <<"seniors", "care">>]

\* POST /api/match/calculate
calculate_matches(match_request, all_docs) ==
    LET grants == [i \in DOMAIN all_docs |->
                     [firestore_id |-> all_docs[i].id] @@ all_docs[i].data]
        matches == batch_match_grants(match_request.npo_profile, grants,
                                      match_request.limit,
                                      Midnight(Today), ServerOrders)
    IN  IF grants = <<>> THEN CaughtNotFound("No grants found in database")
        ELSE IF Raises(matches) THEN ServerError
        ELSE [status |-> "success", total_grants_analyzed |-> Len(grants),
              matches |-> matches.returned]

\* GET /api/match/recommendations/{user_id}; every exception, the 404 of a
\* missing profile included, leaves as a 500
get_recommendations(user_id, limit, all_profiles, all_swipes, all_docs) ==
    IF user_id \notin DOMAIN all_profiles
    THEN CaughtNotFound("Profile not found")
    ELSE
    LET all_grants == UnswipedGrants(all_docs, SwipedGrants(all_swipes, user_id))
        matches == batch_match_grants(all_profiles[user_id].profile, all_grants,
                                      Num(limit), Midnight(Today), ServerOrders)
    IN  IF Raises(matches) THEN ServerError
        ELSE [status |-> "success", user_id |-> user_id,
              recommendations |-> matches.returned,
              total_available |-> Len(all_grants)]

\* the last request served: the handler and the user_id asked for
Request(endpoint, user_id) == [endpoint |-> endpoint, user_id |-> user_id]

GetNpoProfile ==
    /\ \E user_id \in UserIds :
         /\ request' = Request("get_npo_profile", user_id)
         /\ response' = get_npo_profile(user_id, npo_profiles)
    /\ UNCHANGED <<npo, grant, now, result, again, scored, batch, output, builderVars,
                   grants_db, npo_profiles, swipes, swiped_grants>>

CalculateMatches ==
    /\ \E n \in {BaseNPO, ExampleNPO} :
         /\ request' = Request("calculate_matches", "")
         /\ response' = calculate_matches([npo_profile |-> n, limit |-> Num(20)],
                                          grants_db)
    /\ UNCHANGED <<npo, grant, now, result, again, scored, batch, output, builderVars,
                   grants_db, npo_profiles, swipes, swiped_grants>>

GetRecommendations ==
    /\ \E user_id \in UserIds, limit \in Limits :
         /\ swiped_grants' = IF user_id \in DOMAIN npo_profiles
                             THEN SwipedGrants(swipes, user_id) ELSE {}
         /\ request' = Request("get_recommendations", user_id)
         /\ response' = get_recommendations(user_id, limit, npo_profiles, swipes,
                                            grants_db)
    /\ UNCHANGED <<npo, grant, now, result, again, scored, batch, output, builderVars,
                   grants_db, npo_profiles, swipes>>

\* firestore.ArrayUnion([x]) on an array field
ArrayUnion(array, x) == IF x \in ToSet(array) THEN array ELSE Append(array, x)

\* save_swipe(user_id, grant_id, action, match_score): the swipe document is
\* added; then the user's liked or disliked list is updated, and update() of
\* a profile document that does not exist raises, which leaves as a 500
\* after the add
save_swipe(user_id, grant_id, action, match_score, all_profiles, all_swipes) ==
    LET swipe_data == [user_id |-> user_id, grant_id |-> grant_id,
                       action |-> action, match_score |-> match_score]
        field == IF action = "like" THEN "liked_grants" ELSE "disliked_grants"
        added == Append(all_swipes, swipe_data)
    IN  IF user_id \notin DOMAIN all_profiles
        THEN [swipes |-> added, npo_profiles |-> all_profiles, out |-> ServerError]
        ELSE [swipes |-> added,
              npo_profiles |->
                 [all_profiles EXCEPT
                    ![user_id] = [@ EXCEPT ![field] = ArrayUnion(@, grant_id)]],
              out |-> [status |-> "success", message |-> "Swipe " \o action \o " saved"]]

\* POST /api/swipe: the request's grant_id and match_score are those of a card
\* of the last recommendations served; its user_id is that of the user served
\* or one without a stored profile
SaveSwipe ==
    /\ Len(swipes) < MaxSwipes
    /\ response # Idle
    /\ "recommendations" \in DOMAIN response
    /\ \E i \in DOMAIN response.recommendations, action \in SwipeActions,
          user_id \in {response.user_id} \cup (UserIds \ DOMAIN StoredProfiles) :
         LET card == response.recommendations[i].match
             saved == save_swipe(user_id, card.grant_id, action, card.match_score,
                                 npo_profiles, swipes)
         IN  /\ card.grant_id.kind = "str"
             /\ swipes' = saved.swipes
             /\ npo_profiles' = saved.npo_profiles
             /\ request' = Request("save_swipe", user_id)
             /\ response' = saved.out
    /\ UNCHANGED <<npo, grant, now, result, again, scored, batch, output, builderVars,
                   grants_db, swiped_grants>>

\* the server starts with the grants collection uploaded or still empty
InitServer ==
    /\ npo = Idle /\ grant = Idle /\ now = 0 /\ result = Idle /\ again = Idle
    /\ scored = Idle /\ batch = Idle /\ output = Idle
    /\ rec = Idle /\ built = Idle /\ rebuilt = Idle
    /\ funding_text = Idle /\ extracted = Idle /\ reextracted = Idle
    /\ when_input = Idle /\ extracted_window = Idle
    /\ grants_db \in {GrantsCollection, <<>>}
    /\ npo_profiles = StoredProfiles
    /\ swipes = <<>>
    /\ swiped_grants = {}
    /\ request = Idle
    /\ response = Idle

NextServer == GetNpoProfile \/ CalculateMatches \/ GetRecommendations \/ SaveSwipe

SpecServer == InitServer /\ [][NextServer]_vars

\* the score dicts handed to _apply_adjustments: every component at 0, 50, 80
\* or 100
AdjustmentInputs ==
    [ToSet(ScoreKeys) -> {[score |-> v, details |-> <<>>] : v \in {0, 500, 800, 1000}}]

\* _apply_adjustments(npo, grant, scores), which reads neither npo nor grant
ApplyAdjustments ==
    /\ Fresh
    /\ \E scores \in AdjustmentInputs :
         scored' = [scorer |-> "_apply_adjustments", scores |-> scores,
                    out |-> _apply_adjustments(BaseNPO, BaseGrant, scores)]
    /\ UNCHANGED <<npo, grant, now, result, again, batch, output, builderVars,
                   serverVars>>

NextAdjust == ApplyAdjustments

SpecAdjust == Init /\ [][NextAdjust]_vars

\* funding texts: a lead, an amount and a tail, with runs of whitespace in
\* and around them; one lead puts its cap marker more than CapWindow
\* characters before the amount until clean() shortens the run of blanks
FundingTexts ==
    LET blanks == Concat([i \in 1..(CapWindow + 5) |-> " "])
    IN  {Str(lead \o amount \o tail) :
            lead \in {"", "  Up to ", "Capped\n at  ", "Grant of ",
                       "maximum" \o blanks},
            amount \in {"", "S$12,000", "$5,000", "s$ 1,500.50", "US$500", "80%",
                         "S$3k"},
            tail \in {"", " per  project ", "\t(co-funding 12.5 %)",
                       " or S$40 max  "}}

\* the state before extract_funding is called on a funding text
InitFunding ==
    /\ npo = Idle /\ grant = Idle /\ now = 0 /\ result = Idle /\ again = Idle
    /\ scored = Idle /\ batch = Idle /\ output = Idle
    /\ rec = Idle /\ built = Idle /\ rebuilt = Idle
    /\ funding_text \in FundingTexts
    /\ extracted = Idle
    /\ reextracted = Idle
    /\ when_input = Idle
    /\ extracted_window = Idle
    /\ grants_db = GrantsCollection
    /\ npo_profiles = StoredProfiles
    /\ swipes = <<>>
    /\ swiped_grants = {}
    /\ request = Idle
    /\ response = Idle

\* extract_funding(raw_text)
ExtractFunding ==
    /\ funding_text # Idle
    /\ extracted = Idle
    /\ extracted' = extract_funding(funding_text)
    /\ UNCHANGED <<npo, grant, now, result, again, scored, batch, output, rec, built,
                   rebuilt, funding_text, reextracted, when_input,
                   extracted_window, serverVars>>

\* extract_funding on the raw text of the first extraction
ExtractFundingAgain ==
    /\ extracted # Idle
    /\ reextracted = Idle
    /\ reextracted' = extract_funding(extracted.raw)
    /\ UNCHANGED <<npo, grant, now, result, again, scored, batch, output, rec, built,
                   rebuilt, funding_text, extracted, when_input,
                   extracted_window, serverVars>>

NextFunding == ExtractFunding \/ ExtractFundingAgain

SpecFunding == InitFunding /\ [][NextFunding]_vars

\* the dates a "when to apply" text can name: one twice in two spellings, one
\* that is no calendar date, and others before and after
DatePhrases == {"1 Jan 2025", "01 jan 2025", "15 Jun 2025", "30 Feb 2025", "31 Dec 2024"}

\* "when to apply" texts naming up to three dates in any order
WhenTexts ==
    {Str(Join(ps, " to ")) :
        ps \in {<<>>} \cup {<<a>> : a \in DatePhrases}
                \cup {<<a, b>> : a \in DatePhrases, b \in DatePhrases}
                \cup {<<a, b, c>> : a \in DatePhrases, b \in DatePhrases,
                                    c \in DatePhrases}}

\* the state before extract_application_window is called on a text
InitWindow ==
    /\ npo = Idle /\ grant = Idle /\ now = 0 /\ result = Idle /\ again = Idle
    /\ scored = Idle /\ batch = Idle /\ output = Idle
    /\ rec = Idle /\ built = Idle /\ rebuilt = Idle
    /\ funding_text = Idle
    /\ extracted = Idle
    /\ reextracted = Idle
    /\ when_input \in WhenTexts
    /\ extracted_window = Idle
    /\ grants_db = GrantsCollection
    /\ npo_profiles = StoredProfiles
    /\ swipes = <<>>
    /\ swiped_grants = {}
    /\ request = Idle
    /\ response = Idle

\* extract_application_window(when_text)
ExtractApplicationWindow ==
    /\ when_input # Idle
    /\ extracted_window = Idle
    /\ extracted_window' = extract_application_window(when_input)
    /\ UNCHANGED <<npo, grant, now, result, again, scored, batch, output, rec, built,
                   rebuilt, funding_text, extracted, reextracted, when_input,
                   serverVars>>

NextWindow == ExtractApplicationWindow

SpecWindow == InitWindow /\ [][NextWindow]_vars

----------------------------------------------------------------------------
(* Properties *)

\* a call that has been made and has returned a value
Returned(r) == r # Idle /\ ~Raises(r)

\* the final score before the clamp, in thousandths, for component scores ds
\* and an adjustment total adj
Unclamped(ds, adj) == WeightedTotal(ds) + 1000 * adj

\* the match score that component scores ds and an adjustment total adj give
ExpectedScore(ds, adj) ==
    RoundHalfEven(Max(0, Min(100000, Unclamped(ds, adj))), 100)

\* +5 when at least three components score 80 or more
StrongBonus(ds) ==
    IF Cardinality({i \in DOMAIN ScoreKeys : ds[ScoreKeys[i]].score >= 800}) >= 3
    THEN 5 ELSE 0

\* C1: the match score calculate_match_score returns lies in [0, 100], also
\* when the weighted sum plus the adjustments lies outside that range.
C1_MatchScoreInRange ==
    Returned(result) => result.match_score \in 0..1000

\* C1 witness: an evaluation whose weighted sum plus adjustments exceeds 100
C1_Witness ==
    /\ Returned(result)
    /\ Unclamped(result.detailed_scores,
                 _apply_adjustments(npo, grant, result.detailed_scores).total) > 100000
    /\ result.match_score = 1000

\* C2: every component scorer returns a score between 0 and 100.
C2_ComponentScoresInRange ==
    Returned(scored) /\ Returned(scored.out) => scored.out.score \in 0..1000

\* C3: the list batch_match_grants returns is in non-increasing order of
\* match score.
C3_SortedDescending ==
    Returned(output) =>
        \A i \in 1..(Len(output.returned) - 1) :
            output.returned[i].match.match_score
                >= output.returned[i + 1].match.match_score

\* C3 witness: two grants given in ascending order of score come out swapped
C3_Witness ==
    /\ Returned(output)
    /\ Len(batch.grants) = 2
    /\ Len(output.returned) = 2
    /\ output.returned[1].match.match_score > output.returned[2].match.match_score
    /\ output.returned[1].grant_data = batch.grants[2]
    /\ output.returned[2].grant_data = batch.grants[1]

\* C4: for every integer top_n the returned list has at most top_n elements
\* (none when top_n is negative).
C4_AtMostTopN ==
    Returned(output) /\ batch.top_n.kind = "num" =>
        Len(output.returned) <= Max(0, batch.top_n.val)

\* the grants of a list whose scoring returns
ScoringGrants(b) ==
    {i \in DOMAIN b.grants :
        ~Raises(calculate_match_score(b.npo, b.grants[i], b.today,
                    [areas |-> <<"ageing", "health">>, scopes |-> <<>>,
                     words |-> <<"seniors", "care">>]))}

\* C5: batch_match_grants never fails as a whole: a record whose scoring raises
\* is skipped, whatever its shape, and the others are ranked.
C5_BatchNeverFails ==
    batch # Idle =>
        /\ ~Raises(output)
        /\ batch.top_n.kind = "none" =>
              Len(output.returned) = Cardinality(ScoringGrants(batch))

\* C6: when the NPO's or the grant profile's issue_areas is empty the
\* issue-area score is 0 and the adjustment total applied to the final score
\* includes -15.
C6_EmptyIssueAreas ==
    /\ Returned(result) /\ (npo.issue_areas = <<>>
                            \/ ProfileOf(grant).issue_areas = <<>>) =>
          /\ result.component_scores["issue_area_match"] = 0
          /\ result.match_score =
                ExpectedScore(result.detailed_scores,
                    StrongBonus(result.detailed_scores) - 15
                    + (IF result.component_scores["timeline_urgency"] = 0
                       THEN -20 ELSE 0))
    /\ Returned(scored) /\ scored.scorer = "issue_area_match" /\ Returned(scored.out)
          /\ (scored.npo.issue_areas = <<>>
              \/ ProfileOf(scored.grant).issue_areas = <<>>) =>
          scored.out.score = 0

\* C6 witness: an evaluation with an empty side whose other components are
\* strong enough for the penalty to show in a positive final score, lower
\* than the score without the penalty
C6_Witness ==
    /\ Returned(result)
    /\ npo.issue_areas = <<>>
    /\ ProfileOf(grant).issue_areas # <<>>
    /\ result.match_score > 0
    /\ result.match_score < ExpectedScore(result.detailed_scores,
                                          StrongBonus(result.detailed_scores))

\* C7: a grant whose window is open all year has timeline score 100 for every
\* funding_urgency and whatever dates the window carries, so the closed-window
\* -20 is not applied to it.
C7_OpenAllYear ==
    /\ Returned(scored) /\ scored.scorer = "timeline_urgency" /\ Returned(scored.out)
          /\ ProfileOf(scored.grant).application_window.is_open_all_year = Bool(TRUE) =>
          scored.out.score = 1000
    /\ Returned(result)
          /\ ProfileOf(grant).application_window.is_open_all_year = Bool(TRUE) =>
          /\ result.component_scores["timeline_urgency"] = 1000
          /\ result.match_score =
                ExpectedScore(result.detailed_scores,
                    StrongBonus(result.detailed_scores)
                    + (IF result.component_scores["issue_area_match"] = 0
                       THEN -15 ELSE 0)
                    + (IF result.component_scores["issue_area_match"] = 1000
                       THEN 5 ELSE 0))

\* C7 witness: the timeline scorer called by an urgent NPO on an open-all-year
\* window whose end date has passed
C7_Witness ==
    /\ Returned(scored)
    /\ scored.scorer = "timeline_urgency"
    /\ Returned(scored.out)
    /\ LowerWord(scored.npo.funding_urgency) = "urgent"
    /\ LET w == ProfileOf(scored.grant).application_window
       IN  /\ w.is_open_all_year = Bool(TRUE)
           /\ w.end_date.kind = "str"
           /\ Parses(w.end_date.val)
           /\ scored.today > Midnight(w.end_date.val)
    /\ scored.out.score = 1000

\* a text field of a grant record that is missing: no key, or null
Missing(field) == field.kind \in {"absent", "none"}

\* C8: calculate_match_score does not fail on a grant record whose text
\* sub-fields are missing, by absence or by null: eligibility is 70 without
\* who_can_apply and strategic fit is 50 without about.
C8_MissingTextTolerated ==
    result # Idle /\ grant.title.kind = "str" /\ grant.grant_profile.kind = "dict"
        /\ (Missing(grant.who_can_apply) \/ Missing(grant.about)) =>
        /\ ~Raises(result)
        /\ Missing(grant.who_can_apply) =>
              result.component_scores["eligibility_match"] = 700
        /\ Missing(grant.about) =>
              result.component_scores["strategic_fit"] = 500

\* every field build_profile reads is missing from the record
AllMissing(r) ==
    /\ Missing(r.about) /\ Missing(r.who_can_apply) /\ Missing(r.when_to_apply)
    /\ Missing(r.funding) /\ Missing(r.how_to_apply) /\ Missing(r.sections)

\* C9: build_profile does not fail on a record with missing fields (its
\* sections, when it has any, being dicts), and when every field it reads is
\* absent or null the profile has empty issue_areas, scope_tags and
\* kpi_snippets, a funding object of nulls with mentions_cofunding false, and
\* an application window of nulls with an empty dates list.
C9_MissingFieldsTolerated ==
    rec # Idle /\ (\A i \in DOMAIN SectionsOf(rec) :
                         SectionsOf(rec)[i].kind = "dict") =>
        /\ ~Raises(built)
        /\ AllMissing(rec) =>
              /\ built.grant_profile.issue_areas = <<>>
              /\ built.grant_profile.scope_tags = <<>>
              /\ built.grant_profile.kpi_snippets = <<>>
              /\ built.grant_profile.funding =
                    [percent_max |-> None, cap_amount_sgd |-> None,
                     mentions_cofunding |-> Bool(FALSE), raw |-> None]
              /\ built.grant_profile.application_window =
                    [is_open_all_year |-> None, dates |-> <<>>,
                     start_date |-> None, end_date |-> None, raw |-> None]

\* C9 witness: a profile built from a record whose fields are missing, some
\* by absence and some by null
C9_Witness ==
    /\ rec # Idle
    /\ AllMissing(rec)
    /\ rec.about = Absent
    /\ rec.funding = None
    /\ rec.sections = None
    /\ Returned(built)
    /\ built.grant_profile.funding.raw = None
    /\ built.grant_profile.application_window.dates = <<>>

\* C10: two evaluations of one NPO profile and grant record at one instant
\* return the same result in every field.
C10_Deterministic ==
    again # Idle => again = result

C12_FundingIdempotent ==
    reextracted # Idle =>
        /\ reextracted.cap_amount_sgd = extracted.cap_amount_sgd
        /\ reextracted.raw = extracted.raw

\* C12 witness: a text whose whitespace clean() rewrites and whose amount is
\* a cap, extracted twice
C12_Witness ==
    /\ reextracted # Idle
    /\ extracted.raw # None
    /\ extracted.raw # funding_text
    /\ extracted.cap_amount_sgd = Num(12000)
    /\ extracted.percent_max = Num(125)

\* the NPO and grant of the worked example: NPO issue area ageing, no project
\* types, funding need 5000 to 20000; grant issue areas ageing and health, no
\* scope tags, cap 15000, open all year, no eligibility or description text
IsWorkedExample(n, g) ==
    /\ g.kind = "dict"
    /\ {LowerStrip(n.issue_areas[i]) : i \in DOMAIN n.issue_areas} = {"ageing"}
    /\ n.project_types = <<>>
    /\ n.funding_min = 5000
    /\ n.funding_max = 20000
    /\ g.grant_profile = BaseProfile
    /\ Missing(g.who_can_apply)
    /\ Missing(g.about)

\* C13: on the worked example the component scores are issue-area 65, scope
\* 100, funding 83.3 and timeline 100, and the confidence label is medium.
C13_WorkedExample ==
    result # Idle /\ IsWorkedExample(npo, grant) =>
        /\ Returned(result)
        /\ result.component_scores["issue_area_match"] = 650
        /\ result.component_scores["scope_alignment"] = 1000
        /\ result.component_scores["funding_fit"] = 833
        /\ result.component_scores["timeline_urgency"] = 1000
        /\ result.confidence = "medium"

\* C13 witness: the worked example evaluated
C13_Witness ==
    /\ npo = ExampleNPO
    /\ grant = ExampleGrant
    /\ Returned(result)
    /\ result.component_scores["funding_fit"] = 833

\* C14: the recommendations served to a user hold no grant whose reported
\* grant_id is the grant_id of a swipe that user had saved before the request.
C14_SwipedGrantsOmitted ==
    response # Idle /\ "recommendations" \in DOMAIN response =>
        \A i \in DOMAIN response.recommendations :
            response.recommendations[i].match.grant_id \notin swiped_grants

\* the profile of the grant names neither a cap amount nor a percentage
UnknownFunding(g) ==
    /\ g.kind = "dict"
    /\ ProfileOf(g).kind = "dict"
    /\ ~Truthy(ProfileOf(g).funding.cap_amount_sgd)
    /\ ~Truthy(ProfileOf(g).funding.percent_max)

\* C15: a grant whose profile names neither a cap amount nor a percentage
\* (its text fields not null) is scored, with funding fit 70 and a match
\* score, and its confidence label is not "high".
C15_UnknownFundingRanked ==
    result # Idle /\ UnknownFunding(grant)
        /\ get(grant.who_can_apply, Absent) # None /\ get(grant.about, Absent) # None =>
            /\ Returned(result)
            /\ result.component_scores["funding_fit"] = 700
            /\ result.match_score \in 0..1000
            /\ result.confidence \in {"low", "medium"}

\* C15 witness: a grant with unknown funding whose other components score
\* well enough for an average of 70 or more
C15_Witness ==
    /\ Returned(result)
    /\ UnknownFunding(grant)
    /\ SumScores(result.detailed_scores, Len(ScoreKeys)) >= 700 * Len(ScoreKeys)
    /\ result.confidence = "medium"

\* the match scores of the grants of the batch, -1 for one whose scoring raises
BatchScores ==
    list([j \in DOMAIN batch.grants |->
            LET scored_once ==
                    calculate_match_score(batch.npo, batch.grants[j], batch.today,
                                          [areas |-> <<"ageing", "health">>,
                                           scopes |-> <<>>,
                                           words |-> <<"seniors", "care">>])
            IN  IF Raises(scored_once) THEN 0 - 1 ELSE scored_once.match_score])

\* the matches traced to the input positions f, those of equal score in the
\* order of their positions, and no grant left out that stands before a
\* returned match of its own score
StablyRanked(returned, grants, scores, f) ==
    /\ \A p \in DOMAIN f : returned[p].grant_data = grants[f[p]]
    /\ \A p, q \in DOMAIN f :
          p < q =>
             /\ f[p] # f[q]
             /\ returned[p].match.match_score = returned[q].match.match_score
                   => f[p] < f[q]
    /\ \A j \in DOMAIN grants, p \in DOMAIN f :
          (\A q \in DOMAIN f : f[q] # j) /\ scores[j] = returned[p].match.match_score
             => f[p] < j

\* C16: the returned matches can be traced to distinct input positions such
\* that two matches of equal score keep the order of their positions, and an
\* input grant of the same score as a returned match that is itself not
\* returned stands after that match in the input.
C16_StableForTies ==
    Returned(output) =>
        \E scores \in {BatchScores} :
            \E f \in [DOMAIN output.returned -> DOMAIN batch.grants] :
                StablyRanked(output.returned, batch.grants, scores, f)

\* C16 witness: three grants of one score, the third a copy of the first,
\* cut to the top two: the first two are returned in their input order
C16_Witness ==
    /\ Returned(output)
    /\ Len(batch.grants) = 3
    /\ batch.top_n = Num(2)
    /\ batch.grants[1] # batch.grants[2]
    /\ batch.grants[3] = batch.grants[1]
    /\ Len(output.returned) = 2
    /\ output.returned[1].grant_data = batch.grants[1]
    /\ output.returned[2].grant_data = batch.grants[2]
    /\ output.returned[1].match.match_score = output.returned[2].match.match_score

\* the adjustment total the four rules give, each taken by itself
ExpectedAdjustment(scores) ==
    (IF Cardinality({k \in ToSet(ScoreKeys) : scores[k].score >= 800}) >= 3
     THEN 5 ELSE 0)
    + (IF scores["issue_area_match"].score = 0 THEN 0 - 15 ELSE 0)
    + (IF scores["issue_area_match"].score = 1000 THEN 5 ELSE 0)
    + (IF scores["timeline_urgency"].score = 0 THEN 0 - 20 ELSE 0)

\* the reasons of the four adjustments, and the sets of reasons that
\* _apply_adjustments returns for some score dict
AdjustmentReasons ==
    {"Multiple strong compatibility indicators",
     "No issue area overlap - may not be suitable",
     "Perfect issue area alignment",
     "Application window closed"}

AppliedTogether ==
    {ToSet(_apply_adjustments(BaseNPO, BaseGrant, scores).reasons) :
        scores \in AdjustmentInputs}

\* C17 as stated: the adjustment total is the sum of the adjustments that
\* apply, and some scores make all four apply together.
C17_AllFourMayApply ==
    /\ scored # Idle => scored.out.total = ExpectedAdjustment(scored.scores)
    /\ AdjustmentReasons \in AppliedTogether

\* C17 amended: the adjustment total is the sum of the adjustments that
\* apply; the -15 (issue-area score exactly 0) and the +5 (issue-area score
\* exactly 100) never apply together, so at most three adjustments apply at
\* once, and every set of adjustments without that pair applies to some scores.
C17_AdjustmentsSum ==
    /\ scored # Idle =>
          /\ scored.out.total = ExpectedAdjustment(scored.scores)
          /\ Len(scored.out.reasons) <= 3
    /\ AppliedTogether =
          {S \in SUBSET AdjustmentReasons :
              ~({"No issue area overlap - may not be suitable",
                 "Perfect issue area alignment"} \subseteq S)}

\* C17 witness: three adjustments at once, +5 for strong matches, -15 for no
\* issue overlap and -20 for a closed window
C17_Witness ==
    /\ scored # Idle
    /\ scored.scorer = "_apply_adjustments"
    /\ Len(scored.out.reasons) = 3
    /\ scored.out.total = 0 - 30

\* a call of _score_funding on a grant whose cap amount is present (not
\* null and not 0) and equal to the NPO's funding_min
CapAtMinimum ==
    /\ Returned(scored)
    /\ scored.scorer = "funding_fit"
    /\ ProfileOf(scored.grant).kind = "dict"
    /\ Truthy(ProfileOf(scored.grant).funding.cap_amount_sgd)
    /\ ProfileOf(scored.grant).funding.cap_amount_sgd.val = scored.npo.funding_min

\* C18 as stated: a cap amount equal to funding_min scores 20.
C18_BoundaryScoresTwenty ==
    CapAtMinimum => scored.out.score = 200

\* C18 amended: a cap amount equal to funding_min is not below the minimum:
\* it scores 100 when it also reaches funding_max, and otherwise 50, the low
\* end of the partial-coverage interpolation.
C18_BoundaryIsPartial ==
    CapAtMinimum =>
        /\ scored.out.score =
              IF scored.npo.funding_min >= scored.npo.funding_max THEN 1000 ELSE 500
        /\ ~Contains(scored.out.details, <<"below", "your", "minimum">>)

\* C18 witness: cap 5000 for a need of 5000 to 20000 scores 50 as partial
\* coverage
C18_Witness ==
    /\ CapAtMinimum
    /\ scored.npo.funding_max > scored.npo.funding_min
    /\ scored.out.score = 500
    /\ Contains(scored.out.details, <<"provides", "partial", "coverage">>)

\* a value that is present and not null
NonNull(v) == v.kind \notin {"none", "absent"}

\* the funding-fit score, in tenths, that the table gives a cap amount for a
\* need of npo_min to npo_max, to one decimal place
CapTable(cap, npo_min, npo_max) ==
    IF cap < npo_min THEN 200
    ELSE IF cap >= npo_max THEN 1000
    ELSE RoundHalfEven(500 * (npo_max - npo_min) + 500 * (cap - npo_min),
                       npo_max - npo_min)

\* C19: for every NPO with funding_min <= funding_max and every grant the
\* funding scorer returns for, funding fit follows the table: a cap amount
\* that is present with any non-null value scores 20 below funding_min, 100
\* from funding_max on and 50 + 50*(cap - min)/(max - min) between; without a
\* cap amount a non-null percentage scores percent_max; 70 is scored only when
\* the profile has neither.
C19_FundingTable ==
    (/\ scored # Idle
     /\ scored.scorer = "funding_fit"
     /\ Returned(scored.out)
     /\ scored.npo.funding_min <= scored.npo.funding_max)
    => LET funding == ProfileOf(scored.grant).funding
           cap == funding.cap_amount_sgd
           percent == funding.percent_max
       IN  scored.out.score =
              IF NonNull(cap)
              THEN CapTable(cap.val, scored.npo.funding_min, scored.npo.funding_max)
              ELSE IF NonNull(percent) THEN percent.val
              ELSE 700

\* the five fixed phrases of the eligibility scorer that occur in the text
\* who_can_apply and that the NPO n does (meets = TRUE) or does not satisfy
PhrasesFound(n, who_can_apply, meets) ==
    LET checks == eligibility_checks(lower(n.organization_type),
                                     lower(n.registration_status))
    IN  {i \in DOMAIN checks :
            /\ Contains(lower(who_can_apply), checks[i].criterion)
            /\ checks[i].npo_meets = meets}

\* an eligibility scoring of a grant whose eligibility text is not empty
ScoredEligibilityText ==
    /\ scored # Idle
    /\ scored.scorer = "eligibility_match"
    /\ Returned(scored.out)
    /\ scored.grant.who_can_apply.kind = "str"
    /\ scored.grant.who_can_apply.val # <<>>

\* C20: for every grant with a non-empty eligibility text the eligibility
\* score is min(100, 50 + 10*m - 15*u), m and u counting the fixed phrases
\* found in the text that the NPO satisfies and does not satisfy; the score is
\* not floored at 0.
C20_EligibilityFormula ==
    ScoredEligibilityText =>
        LET m == Cardinality(PhrasesFound(scored.npo, scored.grant.who_can_apply.val, TRUE))
            u == Cardinality(PhrasesFound(scored.npo, scored.grant.who_can_apply.val, FALSE))
            total == 50 + 10 * m - 15 * u
        IN  scored.out.score = 10 * (IF total > 100 THEN 100 ELSE total)

\* C20 witness: four of the phrases occur unmet and none met, and the score is
\* -10
C20_Witness ==
    /\ ScoredEligibilityText
    /\ Cardinality(PhrasesFound(scored.npo, scored.grant.who_can_apply.val, FALSE)) = 4
    /\ scored.out.score = -100
    /\ scored.out.score < 0

\* a timeline scoring, that returned, of a grant that is not open all year
ScoredTimeline ==
    /\ scored # Idle
    /\ scored.scorer = "timeline_urgency"
    /\ Returned(scored.out)
    /\ ~Truthy(ProfileOf(scored.grant).application_window.is_open_all_year)

\* the calendar day, as a day count, that an instant falls on
DayOf(t) == t \div TicksPerDay

\* the evaluation instant of a timeline scoring lies in the window of dates
\* that parse: on or after the start date, if there is one, and on or before
\* the end date, at any time of that day
InsideWindow ==
    LET app_window == ProfileOf(scored.grant).application_window
        start_date == app_window.start_date
        end_date == app_window.end_date
    IN  /\ Truthy(end_date)
        /\ Parses(end_date.val)
        /\ Truthy(start_date) => /\ Parses(start_date.val)
                                 /\ DayOf(scored.today) >= Ordinal(start_date.val)
        /\ DayOf(scored.today) <= Ordinal(end_date.val)

\* C21: for a grant that is not open all year and whose dates parse, an
\* evaluation instant on or after the start date and not after the end date,
\* any time of day on the end date included, scores 30 when fewer than 7 days
\* remain, 80 when fewer than 30 remain and 100 otherwise, so never 0.
C21_OpenUntilEndOfEndDate ==
    (ScoredTimeline /\ InsideWindow) =>
        LET end_date == ProfileOf(scored.grant).application_window.end_date
            remaining == Ordinal(end_date.val) - DayOf(scored.today)
        IN  /\ scored.out.score # 0
            /\ remaining >= 30 => scored.out.score = 1000
            /\ (remaining >= 8 /\ remaining < 30) => scored.out.score = 800
            /\ remaining < 7 => scored.out.score = 300

\* the date strings of the timeline scorings that name no calendar date
UnparseableStrings == {<<2025, 2, 30>>}

\* a timeline scoring of a grant whose profile is a dict and whose window is
\* not open all year
ScoredDatedWindow ==
    /\ scored # Idle
    /\ scored.scorer = "timeline_urgency"
    /\ ProfileOf(scored.grant).kind = "dict"
    /\ ~Truthy(ProfileOf(scored.grant).application_window.is_open_all_year)

\* the scorer reads a date string that cannot be parsed: the start date, or
\* the end date when the start date is absent or already reached
ReadFails ==
    LET app_window == ProfileOf(scored.grant).application_window
        start_date == app_window.start_date
        end_date == app_window.end_date
    IN  \/ Truthy(start_date) /\ start_date.val \in UnparseableStrings
        \/ /\ Truthy(end_date) /\ end_date.val \in UnparseableStrings
           /\ \/ ~Truthy(start_date)
              \/ /\ start_date.val \notin UnparseableStrings
                 /\ DayOf(scored.today) >= Ordinal(start_date.val)

\* both dates of the window are absent
NoDates ==
    LET app_window == ProfileOf(scored.grant).application_window
    IN  ~Truthy(app_window.start_date) /\ ~Truthy(app_window.end_date)

\* C22: for a grant that is not open all year the timeline scorer does not
\* raise; it returns 60 when both dates are absent and when a date string it
\* has to read cannot be parsed, so a parse failure never scores 0 and never
\* brings the closed-window adjustment of -20.
C22_ParseFailureScoresSixty ==
    ScoredDatedWindow =>
        /\ Returned(scored.out)
        /\ (NoDates \/ ReadFails) =>
              /\ scored.out.score = 600
              /\ scored.out.score # 0
              /\ ~ClosedWindowPenalty([timeline_urgency |-> scored.out]).applies

\* C22 witness: an end date of 30 February is read and the score is 60,
\* "timeline unclear"
C22_Witness ==
    /\ ScoredDatedWindow
    /\ ReadFails
    /\ ~Truthy(ProfileOf(scored.grant).application_window.start_date)
    /\ scored.out.score = 600
    /\ scored.out.details = <<"Application", "timeline", "unclear">>

\* the components of an evaluation whose score is a missing-data default:
\* funding terms absent, eligibility text absent, NPO project types absent
\* for a grant that asks for some, application dates absent
MissingDataDefaults(n, g) ==
    LET gp == ProfileOf(g)
        who == get(g.who_can_apply, Str(<<>>))
    IN  {key \in ToSet(ScoreKeys) :
            \/ /\ key = "funding_fit"
               /\ ~Truthy(gp.funding.cap_amount_sgd)
               /\ ~Truthy(gp.funding.percent_max)
            \/ /\ key = "eligibility_match"
               /\ who.val = <<>>
            \/ /\ key = "scope_alignment"
               /\ n.project_types = <<>>
               /\ gp.scope_tags # <<>>
            \/ /\ key = "timeline_urgency"
               /\ ~Truthy(gp.application_window.is_open_all_year)
               /\ ~Truthy(gp.application_window.start_date)
               /\ ~Truthy(gp.application_window.end_date)}

\* the label the rule gives: unclear is the number of components whose
\* details say "not specified" or "unclear", sum the sum of the six scores
ConfidenceRule(unclear, sum) ==
    IF unclear >= 3 THEN "low"
    ELSE IF unclear >= 1 THEN "medium"
    ELSE IF sum >= 6 * 700 THEN "high"
    ELSE "medium"

\* C23: the confidence label follows the rule on the six components (low for
\* three or more marked details, medium for one or two, high for none and a
\* mean of at least 70, medium otherwise), and "high" is assigned only when no
\* component score came from a missing-data default.
C23_HighOnlyWithoutDefaults ==
    Returned(result) =>
        LET ds == result.detailed_scores
            marked == {key \in ToSet(ScoreKeys) :
                          \/ Contains(lower(ds[key].details), <<"not", "specified">>)
                          \/ Contains(lower(ds[key].details), <<"unclear">>)}
            sum == ds.issue_area_match.score + ds.scope_alignment.score
                     + ds.funding_fit.score + ds.eligibility_match.score
                     + ds.timeline_urgency.score + ds.strategic_fit.score
        IN  /\ result.confidence = ConfidenceRule(Cardinality(marked), sum)
            /\ result.confidence = "high" => MissingDataDefaults(npo, grant) = {}

\* the components of a result that score below 50
WeakComponents(r) ==
    {key \in ToSet(ScoreKeys) : r.detailed_scores[key].score < 500}

\* C24: the concerns of a match result contain the details of every component
\* that scores below 50, however many there are, and are the one entry "No
\* major concerns identified" exactly when no component scores below 50.
C24_EveryConcernListed ==
    Returned(result) =>
        /\ \A key \in WeakComponents(result) :
              \E i \in DOMAIN result.concerns :
                 result.concerns[i] = result.detailed_scores[key].details
        /\ WeakComponents(result) = {}
              <=> result.concerns = << <<"No", "major", "concerns", "identified">> >>

\* the three generic guidance strings
GenericGuidance ==
    << <<"Review", "full", "grant", "guidelines", "on", "OurSG", "portal">>,
       <<"Prepare", "required", "documents">>,
       <<"Contact", "grant", "agency", "if", "you", "have", "questions">> >>

\* the action items of a result that begin with the words of prefix
ItemsStarting(r, prefix) ==
    {i \in DOMAIN r.action_items :
        /\ Len(r.action_items[i]) >= Len(prefix)
        /\ SubSeq(r.action_items[i], 1, Len(prefix)) = prefix}

\* the issue areas of grant g that NPO n does not declare
UndeclaredAreas(n, g) ==
    {LowerStrip(a) : a \in ToSet(ProfileOf(g).issue_areas)}
        \ {LowerStrip(a) : a \in ToSet(n.issue_areas)}

\* C25: whenever the issue-area score is below 70 and the grant has an issue
\* area the NPO does not declare, the action items include the
\* missing-issue-areas item, also when the score is 0 for want of overlap; the
\* three generic strings are returned only when no trigger produced an item;
\* the list never holds more than 3 items.
C25_MissingAreasItem ==
    Returned(result) =>
        LET ds == result.detailed_scores
            missing_item == ItemsStarting(result,
                               <<"Consider", "how", "your", "work", "relates", "to:">>)
            verify_item == ItemsStarting(result, <<"Verify", "eligibility:">>)
            timeline_item == ItemsStarting(result, <<"Check", "application", "timeline">>)
        IN  /\ (ds.issue_area_match.score < 700 /\ UndeclaredAreas(npo, grant) # {})
                  => missing_item # {}
            /\ result.action_items = GenericGuidance
                  => /\ ds.timeline_urgency.score >= 600
                     /\ missing_item = {} /\ verify_item = {} /\ timeline_item = {}
            /\ Len(result.action_items) <= 3

\* date a is earlier than date b, both triples of year, month and day
Earlier(a, b) ==
    \/ a[1] < b[1]
    \/ a[1] = b[1] /\ a[2] < b[2]
    \/ a[1] = b[1] /\ a[2] = b[2] /\ a[3] < b[3]

\* C26: for every "when to apply" text the extraction returns, and the dates
\* of the window are strictly ascending (so without duplicates), start_date is
\* the first of them and end_date the last (both absent without dates), so
\* start_date <= end_date; a day, month and year that name no calendar date
\* are not among the dates.
C26_DatesAscending ==
    extracted_window # Idle =>
        /\ Returned(extracted_window)
        /\ LET dates == extracted_window.dates
               start_date == extracted_window.start_date
               end_date == extracted_window.end_date
           IN  /\ \A i \in 1..(Len(dates) - 1) : Earlier(dates[i], dates[i + 1])
               /\ \A i \in DOMAIN dates :
                     /\ dates[i][2] \in 1..12
                     /\ dates[i][3] \in 1..DaysInMonth(dates[i][1], dates[i][2])
               /\ dates # <<>> => /\ start_date = Str(dates[1])
                                  /\ end_date = Str(dates[Len(dates)])
                                  /\ ~Earlier(end_date.val, start_date.val)
               /\ dates = <<>> => start_date = None /\ end_date = None

\* C26 witness: a text naming 15 Jun 2025, then 30 Feb 2025, then 1 Jan 2025
\* gives the window from 1 January to 15 June
C26_Witness ==
    /\ when_input = Str("15 Jun 2025 to 30 Feb 2025 to 1 Jan 2025")
    /\ extracted_window # Idle
    /\ extracted_window.dates = << <<2025, 1, 1>>, <<2025, 6, 15>> >>
    /\ extracted_window.start_date = Str(<<2025, 1, 1>>)
    /\ extracted_window.end_date = Str(<<2025, 6, 15>>)

\* the scope tags a scope scoring found shared by the NPO and the grant
SharedScopes ==
    {LowerStrip(a) : a \in ToSet(scored.npo.project_types)}
        \cap {LowerStrip(a) : a \in ToSet(ProfileOf(scored.grant).scope_tags)}

\* the scope-alignment score of the same grant for an NPO whose declared
\* project types share no tag with it
NoOverlapScore ==
    _score_scope_tags([scored.npo EXCEPT !.project_types = <<"other_work">>],
                      scored.grant,
                      [areas |-> <<>>, scopes |-> <<>>, words |-> <<>>]).score

\* C27: for a grant with scope tags, an NPO whose declared project types share
\* a tag with the grant never scores lower on scope alignment than an NPO
\* whose declared types share none, which scores 30.
C27_ScopeMonotone ==
    (/\ scored # Idle
     /\ scored.scorer = "scope_alignment"
     /\ Returned(scored.out)
     /\ SharedScopes # {})
    => /\ NoOverlapScore = 300
       /\ scored.out.score >= NoOverlapScore

\* C28: a request for a resource that does not exist is answered with status
\* 404: get_npo_profile and get_recommendations answer 404 "Profile not
\* found" when no profile is stored for the user_id, and calculate_matches
\* answers 404 when the grants collection is empty.
C28_NotFoundIs404 ==
    response # Idle =>
        /\ (/\ request.endpoint \in {"get_npo_profile", "get_recommendations"}
            /\ request.user_id \notin DOMAIN npo_profiles)
           => /\ StatusOf(response) = 404
              /\ response.detail = "Profile not found"
        /\ (request.endpoint = "calculate_matches" /\ grants_db = <<>>)
           => StatusOf(response) = 404

\* C29: save_swipe is all-or-nothing, so after any sequence of save_swipe
\* calls every stored swipe's grant_id is in the liked_grants or the
\* disliked_grants list of its user's profile.
C29_SwipeAllOrNothing ==
    \A i \in DOMAIN swipes :
        /\ swipes[i].user_id \in DOMAIN npo_profiles
        /\ swipes[i].grant_id
              \in ToSet(npo_profiles[swipes[i].user_id].liked_grants)
                     \cup ToSet(npo_profiles[swipes[i].user_id].disliked_grants)

\* the highest-scoring component of a result, the first in the fixed order
\* among those that tie
TopComponent(r) ==
    LET best(i) == \A j \in DOMAIN ScoreKeys :
                      r.detailed_scores[ScoreKeys[j]].score
                         <= r.detailed_scores[ScoreKeys[i]].score
    IN  ScoreKeys[CHOOSE i \in DOMAIN ScoreKeys :
                     best(i) /\ \A j \in 1..(i - 1) : ~best(j)]

\* the reasoning of a result begins "Strong match"
SaysStrongMatch(r) ==
    Len(r.reasoning) >= 2 /\ SubSeq(r.reasoning, 1, 2) = <<"Strong", "match">>

\* the reasoning names the top component and says "Strong match" exactly when
\* its score is at least 80
ReasoningFromTop(r) ==
    LET top == TopComponent(r)
        scored_top == r.detailed_scores[top]
    IN  /\ SaysStrongMatch(r) <=> scored_top.score >= 800
        /\ r.reasoning =
              IF scored_top.score >= 800
              THEN <<"Strong", "match", "due", "to">> \o SpacedKey(top) \o <<".">>
                      \o scored_top.details
              ELSE <<"Moderate", "match.">> \o scored_top.details

\* C30: the reasoning sentence is built from the single highest-scoring
\* component, the first in the fixed order when several tie, and says "Strong
\* match" exactly when that score is at least 80; a result whose reasoning
\* says "Strong match" never has a final match score of 0.
C30_StrongMatchNeverZero ==
    Returned(result) =>
        /\ ReasoningFromTop(result)
        /\ SaysStrongMatch(result) => result.match_score # 0

====
